---- MODULE Spec2Model ----
(***************************************************************************)
(* Incident-response pipeline of ai-agent-on-aws: the remediation executor *)
(* (execute-remediation), the approval processor (process-approval), the   *)
(* API handler's approval update (api-handler) and the remediation agent's *)
(* risk assessor (agent-remediation), over the DynamoDB tables they share. *)
(***************************************************************************)
EXTENDS Integers, Sequences, FiniteSets, TLC

\* ---------------------------------------------------------------- bounds

\* Longest immediate_actions / corrective_actions list of a plan.
MaxImmediate == 2
MaxCorrective == 1
\* Largest value of the wall clock (datetime.now()).
MaxTime == 1
\* Number of process_approval Lambda invocations in one behaviour.
MaxInvocations == 2
\* Longest immediate_actions / corrective_actions list of a plan the
\* remediation agent generates.
MaxPlanActions == 1
\* Number of concurrent callers of the MCP monitoring tools.
MaxCallers == 2
\* Most record_failure calls in a row on one service.
MaxConsecutive == 6
\* Number of times the breaker's clock advances.
MaxElapse == 3

\* ---------------------------------------------------------------- values

\* Python's None (for string-valued fields) and Python's empty string.
None == "None"
Empty == ""

\* Python truthiness of an optional string: `if approval_id:`, `if comments:`.
Truthy(s) == s # None /\ s # Empty

\* The entry test without its first half.
MissingInput_data_only(incident_id, data) == DOMAIN data = {}

\* `if not incident_id or not incident_data:` (`not remediation_plan` in the
\* executor), the first test of the triage, root-cause, executor, verifier
\* and escalation handlers: the id is None or empty, or the dict is None or
\* empty.
MissingInput(incident_id, data) == ~Truthy(incident_id) \/ DOMAIN data = {}

\* dict.get(key, default)
Get(d, k, default) == IF k \in DOMAIN d THEN d[k] ELSE default

\* Risk labels a plan action carries.
Risks == {"low", "medium", "high"}

\* The attributes of one plan action.  'critical' is not part of the plan
\* format the agent asks the reasoner for, so a plan action may lack it.
ActionAttrs ==
    [risk : Risks \ {"medium"}, reversible : BOOLEAN, critical : BOOLEAN]

\* The action's description ('action' key): here its place in the plan.
ActionName(type, i) == <<type, i>>

Named(attrs, type, i) ==
    [action |-> ActionName(type, i), risk |-> attrs.risk,
     reversible |-> attrs.reversible, critical |-> attrs.critical]

SeqsUpTo(S, n) == UNION {[1..k -> S] : k \in 0..n}

\* The remediation plans of the model: every list of at most MaxImmediate
\* immediate and MaxCorrective corrective actions.
Plans ==
    {[immediate_actions |-> [i \in DOMAIN imm |-> Named(imm[i], "immediate", i)],
      corrective_actions |-> [i \in DOMAIN cor |-> Named(cor[i], "corrective", i)]] :
        imm \in SeqsUpTo(ActionAttrs, MaxImmediate),
        cor \in SeqsUpTo(ActionAttrs, MaxCorrective)}

\* plan.get('immediate_actions', []) + plan.get('corrective_actions', [])
AllActions(p) ==
    Get(p, "immediate_actions", <<>>) \o Get(p, "corrective_actions", <<>>)

\* Identifiers.
ApprovalIds == {"APPR-1"}
\* The approval_id of an executor event: a stored id, an unknown id, or none.
ApprovalIdInputs == ApprovalIds \cup {"APPR-404", None}
IncidentIds == {"INC-1"}
\* The approver of each process_approval invocation.
ApproverOf(n) == IF n = 1 THEN "alice" ELSE IF n = 2 THEN "bob" ELSE "carol"
Invocations == 1..MaxInvocations

\* ------------------------------------------------------------- variables

VARIABLES
    now,              \* datetime.now(), in seconds
    approvals,        \* table ITOps-ApprovalQueue: approval_id -> item
    incidents,        \* table ITOps-Incidents: incident_id -> item
    remediation_log,  \* table ITOps-RemediationLog: the items put, in order
    notifications,    \* approval notifications sent, in order
    triggered,        \* remediation executions triggered by approvals
    inv,              \* the process_approval invocations
    pc,               \* the executor invocation's position in execute
    event,            \* the executor invocation's event
    results,          \* execute's `results` (its return value once returned)
    executed,         \* the _execute_action calls made, in order
    faults,           \* the table operations that raised
    agent,            \* the remediation agent's remediate call
    verifier,         \* the resolution verifier's verify_resolution call
    circuit_breaker_table,  \* table ITOps-CircuitBreaker: service_name -> item
    calls,            \* the MCP tool calls, one per caller
    consecutive,      \* per service: record_failure calls since the last
                      \* record_success call
    bedrock,          \* what the reasoner did on the last call's request
    invocation,       \* the last Lambda entry point invoked: its event and
                      \* its response
    rootcause,        \* the root-cause agent's investigate call
    agent_state_table,   \* table ITOps-AgentState: agent_id -> item
    escalations_table    \* table ITOps-Escalations: escalation_id -> item

vars == <<now, approvals, incidents, remediation_log, notifications, triggered,
          inv, pc, event, results, executed, faults,
          agent, verifier, circuit_breaker_table, calls, consecutive,
          bedrock, invocation, rootcause, agent_state_table, escalations_table>>

\* The variables of one component each.
executorVars == <<remediation_log, pc, event, results, executed>>
processorVars == <<notifications, triggered, inv>>
breakerVars == <<circuit_breaker_table, calls, consecutive>>
engineVars ==
    <<bedrock, invocation, rootcause, agent_state_table, escalations_table>>

\* ------------------------------------------------------------ table items

\* The item _queue_for_approval puts: status 'pending', no decision fields.
PendingItem(incident_id) ==
    [incident_id |-> incident_id, status |-> "pending", approver |-> None,
     approved_at |-> <<>>, comments |-> None, updated_at |-> <<>>]

\* A pending item after one decision by process_approval.
DecidedItem(incident_id, status, approver, t) ==
    [PendingItem(incident_id) EXCEPT
        !.status = status, !.approver = approver, !.approved_at = <<t>>]

NewIncident == [status |-> "open", timeline |-> <<>>]

\* process_approval's return value: the failures by their message, and the
\* success with the decision.
Failure(message) == [success |-> FALSE, message |-> message, status |-> None]
Success(status) == [success |-> TRUE, message |-> "decided", status |-> status]
NoReturn == [success |-> FALSE, message |-> "none", status |-> None]

\* A process_approval invocation that has not been called yet.  An invocation
\* holds its event's approval_id and decision, its locals while it runs
\* (approver, comments, the approval it read) and its return value.
IdleInvocation ==
    [pc |-> "idle", approval_id |-> None, action |-> None, approver |-> None,
     comments |-> None, approval |-> <<>>, result |-> NoReturn]

\* A remediate call that has not been made yet.  A call holds the plan
\* _generate_plan returned and its return value.
IdleAgent ==
    [pc |-> "idle", incident_id |-> None, plan |-> <<>>,
     result |-> [status |-> "none"]]

\* A verify_resolution call that has not been made yet.  A call holds its
\* event and the verification_result it returned.
IdleVerifier ==
    [pc |-> "idle", incident_id |-> None, remediation_plan |-> <<>>,
     result |-> [verified |-> FALSE]]

\* The services a CircuitBreaker guards (MCPTools.__init__) and the callers
\* of the tools.
Services == {"cloudwatch", "cloudwatch_logs"}
Callers == 1..MaxCallers

\* An empty table.
NoItems == <<>>

\* A tool call that has not been made yet.  A call holds its tool, whether
\* the get_state of its is_open raised, whether the CloudWatch query was made,
\* the failure_count its record_failure computed, the record_success /
\* record_failure calls it completed, and its result.
IdleCall ==
    [pc |-> "idle", tool |-> None, read_error |-> FALSE, queried |-> FALSE,
     failure_count |-> 0, recorded |-> <<>>, result |-> <<>>]

\* What the reasoner (Bedrock) did on a request: the call raised, or it
\* returned a text.  No request was made yet.
NoBedrock == [raised |-> FALSE, text |-> <<>>, called |-> FALSE]

\* No Lambda entry point was invoked yet.  An invocation holds the handler's
\* name, its event and its response (statusCode and result).
NoInvocation == [name |-> None, event |-> <<>>, statusCode |-> 0, result |-> <<>>]

\* An investigate call that has not been made yet.  A call holds its locals
\* (iteration, investigation_log, context['gathered_data'],
\* conclusion_reached, root_cause), the tools it invoked and the report.
IdleInvestigation ==
    [pc |-> "idle", incident_id |-> None, iteration |-> 0,
     investigation_log |-> <<>>, gathered_data |-> <<>>,
     conclusion_reached |-> FALSE, root_cause |-> None, invoked |-> <<>>]

\* The reasoner was not asked, no entry point was invoked, and the agent
\* state and escalation tables are empty.
InitEngine ==
    /\ bedrock = NoBedrock
    /\ invocation = NoInvocation
    /\ rootcause = IdleInvestigation
    /\ agent_state_table = NoItems
    /\ escalations_table = NoItems

\* ------------------------------------------------ the reasoner's responses

\* Longest response text given to _parse_action on its own, in pieces.
MaxResponseLen == 4

\* A response text as the parsers see it, cut in pieces: an opening brace, a
\* closing brace, the members of a JSON object (the text between the braces
\* of an object json.loads accepts, held as the dict it stands for), or other
\* text without a brace that is not JSON.
Open == [kind |-> "{"]
Close == [kind |-> "}"]
Prose == [kind |-> "text"]
Members(d) == [kind |-> "members", value |-> d]

\* The reasoner's behaviour on one request: converse / invoke_model raises,
\* or it returns a text.
Raises == [raised |-> TRUE, text |-> <<>>, called |-> TRUE]
Answers(text) == [raised |-> FALSE, text |-> text, called |-> TRUE]

\* str.find and str.rfind of a brace, counted from 0; -1 when there is none.
find(response, brace) ==
    IF \E i \in DOMAIN response : response[i].kind = brace
    THEN (CHOOSE i \in DOMAIN response :
            /\ response[i].kind = brace
            /\ \A j \in 1..(i - 1) : response[j].kind # brace) - 1
    ELSE -1

rfind(response, brace) ==
    IF \E i \in DOMAIN response : response[i].kind = brace
    THEN (CHOOSE i \in DOMAIN response :
            /\ response[i].kind = brace
            /\ \A j \in (i + 1)..Len(response) : response[j].kind # brace) - 1
    ELSE -1

\* response[start:end]
Slice(response, start, end) == SubSeq(response, start + 1, end)

\* json.loads of a text that begins and ends with a brace: it returns a dict
\* for "{}" and for braces around an object's members, and raises otherwise.
json_raises(text) ==
    ~ \/ Len(text) = 2 /\ text[1].kind = "{" /\ text[2].kind = "}"
      \/ /\ Len(text) = 3
         /\ text[1].kind = "{" /\ text[2].kind = "members" /\ text[3].kind = "}"

json_loads(text) == IF Len(text) = 2 THEN <<>> ELSE text[2].value

\* The `try: start = find('{'); end = rfind('}') + 1; if start != -1 and
\* end > 0: return json.loads(response[start:end]) except: ...` that
\* _parse_action, _parse_report and _parse_plan share: the parsed dict, or the
\* fallback when there is no pair of braces or json.loads raises.
parse_json(response, fallback) ==
    LET start == find(response, "{")
        end == rfind(response, "}") + 1
    IN IF start # -1 /\ end > 0 /\ ~json_raises(Slice(response, start, end))
       THEN json_loads(Slice(response, start, end))
       ELSE fallback

\* ------------------------------------------------------- risk assessor

\* _assess_risk looking at the risk labels only.
assess_risk_labels_only(p) ==
    LET all_actions == AllActions(p)
        risk_levels == {Get(all_actions[i], "risk", "medium") : i \in DOMAIN all_actions}
    IN IF "high" \in risk_levels THEN "high"
       ELSE IF "medium" \in risk_levels THEN "medium" ELSE "low"

\* RemediationAgent._assess_risk: 'high' when an action's risk is 'high' or an
\* action is not reversible, else 'medium' when an action's risk is 'medium',
\* else 'low'.
assess_risk(p) ==
    LET all_actions == AllActions(p)
        risk_levels == {Get(all_actions[i], "risk", "medium") : i \in DOMAIN all_actions}
    IN IF "high" \in risk_levels
          \/ \E i \in DOMAIN all_actions : ~ Get(all_actions[i], "reversible", TRUE)
       THEN "high"
       ELSE IF "medium" \in risk_levels THEN "medium" ELSE "low"

\* ------------------------------------------- remediation executor: helpers

\* _verify_approval accepting every stored approval that is not rejected.
verify_approval_not_rejected(store, approval_id, store_error) ==
    IF store_error THEN FALSE
    ELSE IF approval_id \notin DOMAIN store THEN FALSE
    ELSE Get(store[approval_id], "status", "pending") # "rejected"

\* RemediationExecutor._verify_approval: the approval's stored status is read
\* now; anything but an item with status 'approved' (no item, another status,
\* a failing query) is False.
verify_approval(store, approval_id, store_error) ==
    IF store_error THEN FALSE
    ELSE IF approval_id \notin DOMAIN store THEN FALSE
    ELSE Get(store[approval_id], "status", "pending") = "approved"

\* _pre_execution_safety_check looking at the immediate actions only.
pre_execution_safety_check_immediate_only(p) ==
    ~ \E i \in DOMAIN Get(p, "immediate_actions", <<>>) :
        /\ Get(p.immediate_actions[i], "risk", None) = "high"
        /\ ~ Get(p.immediate_actions[i], "reversible", FALSE)

\* RemediationExecutor._pre_execution_safety_check, its 'safe' flag: no action
\* of either list is high-risk and not reversible.
pre_execution_safety_check(p) ==
    ~ \E i \in DOMAIN AllActions(p) :
        /\ Get(AllActions(p)[i], "risk", None) = "high"
        /\ ~ Get(AllActions(p)[i], "reversible", FALSE)

\* RemediationExecutor._execute_action: the result record of one action;
\* success unless the action's executor raised.
execute_action(action, action_type, raised) ==
    [action |-> Get(action, "action", "Unknown"),
     type |-> action_type,
     risk |-> Get(action, "risk", "medium"),
     success |-> ~raised]

\* The result appended to its phase's list and never to failed_actions.
record_result_list_only(r, list, result) ==
    [r EXCEPT ![list] = Append(@, result)]

\* execute, lines 84-87 and 97-100: the result is appended to its phase's list
\* and, when it is a failure, to failed_actions.
record_result(r, list, result) ==
    LET r1 == [r EXCEPT ![list] = Append(@, result)]
    IN IF ~result.success
       THEN [r1 EXCEPT !.failed_actions = Append(@, result)]
       ELSE r1

\* The critical flag looked up in the result record, which has none.
IsCriticalFailure_from_result(action, result) ==
    ~result.success /\ Get(result, "critical", FALSE)

\* execute, lines 86-89: a failed action that is flagged critical.
IsCriticalFailure(action, result) ==
    ~result.success /\ Get(action, "critical", FALSE)

\* execute, lines 48-57: the result of a call whose approval is not granted.
BlockedResult(incident_id) ==
    [incident_id |-> incident_id, status |-> "blocked", executed_actions |-> <<>>]

\* execute, lines 59-67: the result of a call whose plan fails the safety check.
AbortedResult(incident_id) ==
    [incident_id |-> incident_id, status |-> "aborted", executed_actions |-> <<>>]

\* execute, lines 70-79: `results` as execution starts.
InProgressResult(incident_id) ==
    [incident_id |-> incident_id, status |-> "in_progress",
     immediate_actions |-> <<>>, corrective_actions |-> <<>>,
     failed_actions |-> <<>>, verified |-> FALSE]

\* The overall status with <= for <: all actions failed is 'partial_success'.
OverallStatus_le(r) ==
    IF Len(r.failed_actions) = 0 THEN "success"
    ELSE IF Len(r.failed_actions) <=
            Len(r.immediate_actions) + Len(r.corrective_actions)
         THEN "partial_success"
         ELSE "failed"

\* execute, lines 102-111: the overall status from the three lists.
OverallStatus(r) ==
    IF Len(r.failed_actions) = 0 THEN "success"
    ELSE IF Len(r.failed_actions) <
            Len(r.immediate_actions) + Len(r.corrective_actions)
         THEN "partial_success"
         ELSE "failed"

\* The two loops in the other order: corrective actions first.
LoopPc_corrective_first(p, r) ==
    IF Len(r.corrective_actions) < Len(p.corrective_actions) THEN "corrective"
    ELSE IF Len(r.immediate_actions) < Len(p.immediate_actions) THEN "immediate"
    ELSE "finish"

\* Where execute's control is, given the plan and the results so far: in the
\* loop over the immediate actions, in the loop over the corrective actions,
\* or past both.
LoopPc(p, r) ==
    IF Len(r.immediate_actions) < Len(p.immediate_actions) THEN "immediate"
    ELSE IF Len(r.corrective_actions) < Len(p.corrective_actions) THEN "corrective"
    ELSE "finish"

\* RemediationExecutor._log_execution: the item put in ITOps-RemediationLog.
LogItem(incident_id, r, t) ==
    [incident_id |-> incident_id, timestamp |-> t, status |-> r.status,
     actions_executed |-> Len(r.immediate_actions) + Len(r.corrective_actions),
     actions_failed |-> Len(r.failed_actions)]

\* RemediationExecutor._update_incident: the incident table after the update
\* (status and one timeline event in one update_item), unchanged when there
\* is no such incident.
ExecutorUpdateIncident(table, incident_id, r, t) ==
    IF incident_id \notin DOMAIN table THEN table
    ELSE [table EXCEPT ![incident_id] =
            [@ EXCEPT
                !.status = IF r.status = "success" THEN "resolved" ELSE "in_progress",
                !.timeline = Append(@,
                    [timestamp |-> t, event |-> "remediation_executed",
                     actor |-> "remediation_executor",
                     details |-> <<r.status, Len(r.immediate_actions)
                                             + Len(r.corrective_actions)>>])]]

\* ------------------------------------------- remediation executor: actions

\* execute up to the first loop: the approval check (only for a truthy
\* approval_id), then the safety check, then the empty `results`.
ExecBegin(incident_id, p, approval_id, store_error) ==
    /\ pc = "idle"
    /\ event' = [incident_id |-> incident_id, remediation_plan |-> p,
                 approval_id |-> approval_id]
    /\ IF Truthy(approval_id) /\ ~verify_approval(approvals, approval_id, store_error)
       THEN /\ results' = BlockedResult(incident_id)
            /\ pc' = "returned"
       ELSE IF ~pre_execution_safety_check(p)
       THEN /\ results' = AbortedResult(incident_id)
            /\ pc' = "returned"
       ELSE /\ results' = InProgressResult(incident_id)
            /\ pc' = LoopPc(p, InProgressResult(incident_id))
    /\ faults' = IF Truthy(approval_id) /\ store_error
                 THEN faults \cup {"approval_query"} ELSE faults
    /\ UNCHANGED <<agent, verifier, engineVars, breakerVars>>
    /\ UNCHANGED <<now, approvals, incidents, remediation_log, notifications,
                   triggered, inv, executed>>

\* One pass of the loop over the immediate actions (lines 82-92).
ExecImmediate(raised) ==
    /\ pc = "immediate"
    /\ LET p == event.remediation_plan
           action == p.immediate_actions[Len(results.immediate_actions) + 1]
           result == execute_action(action, "immediate", raised)
           r2 == record_result(results, "immediate_actions", result)
       IN /\ executed' = Append(executed, <<"immediate", result.action>>)
          /\ IF IsCriticalFailure(action, result)
             THEN /\ results' = [r2 EXCEPT !.status = "failed"]
                  /\ pc' = "returned"
             ELSE /\ results' = r2
                  /\ pc' = LoopPc(p, r2)
    /\ UNCHANGED <<agent, verifier, engineVars, breakerVars>>
    /\ UNCHANGED <<now, approvals, incidents, remediation_log, notifications,
                   triggered, inv, event, faults>>

\* The corrective loop returning on a failed critical action, as the
\* immediate loop does.
ExecCorrective_critical_stops(raised) ==
    /\ pc = "corrective"
    /\ LET p == event.remediation_plan
           action == p.corrective_actions[Len(results.corrective_actions) + 1]
           result == execute_action(action, "corrective", raised)
           r2 == record_result(results, "corrective_actions", result)
       IN /\ executed' = Append(executed, <<"corrective", result.action>>)
          /\ IF IsCriticalFailure(action, result)
             THEN /\ results' = [r2 EXCEPT !.status = "failed"]
                  /\ pc' = "returned"
             ELSE /\ results' = r2
                  /\ pc' = LoopPc(p, r2)
    /\ UNCHANGED <<agent, verifier, engineVars, breakerVars>>
    /\ UNCHANGED <<now, approvals, incidents, remediation_log, notifications,
                   triggered, inv, event, faults>>

\* One pass of the loop over the corrective actions (lines 95-100).
ExecCorrective(raised) ==
    /\ pc = "corrective"
    /\ LET p == event.remediation_plan
           action == p.corrective_actions[Len(results.corrective_actions) + 1]
           result == execute_action(action, "corrective", raised)
           r2 == record_result(results, "corrective_actions", result)
       IN /\ executed' = Append(executed, <<"corrective", result.action>>)
          /\ results' = r2
          /\ pc' = LoopPc(p, r2)
    /\ UNCHANGED <<agent, verifier, engineVars, breakerVars>>
    /\ UNCHANGED <<now, approvals, incidents, remediation_log, notifications,
                   triggered, inv, event, faults>>

\* The rest of execute (lines 102-126): the overall status, the log item, the
\* incident update and the verification of the success criteria.  Either
\* table write may fail; the failure is caught and printed.
ExecFinish(log_error, incident_error) ==
    /\ pc = "finish"
    /\ LET r == [results EXCEPT !.status = OverallStatus(results)]
       IN /\ remediation_log' =
                IF log_error THEN remediation_log
                ELSE Append(remediation_log, LogItem(event.incident_id, r, now))
          /\ incidents' =
                IF incident_error THEN incidents
                ELSE ExecutorUpdateIncident(incidents, event.incident_id, r, now)
          /\ results' =
                [r EXCEPT !.verified = r.status \in {"success", "partial_success"}]
    /\ faults' = faults \cup (IF log_error THEN {"log_put"} ELSE {})
                        \cup (IF incident_error THEN {"incident_update"} ELSE {})
    /\ pc' = "returned"
    /\ UNCHANGED <<agent, verifier, engineVars, breakerVars>>
    /\ UNCHANGED <<now, approvals, notifications, triggered, inv, event, executed>>

\* ------------------------------------------------ executor specification

NoEvent ==
    [incident_id |-> None,
     remediation_plan |-> [immediate_actions |-> <<>>, corrective_actions |-> <<>>],
     approval_id |-> None]

NoResult == [status |-> "none"]

\* One execute call on tables as the rest of the pipeline leaves them: the
\* incident exists, and the approval is pending or decided.
InitExec ==
    /\ now = 0
    /\ approvals \in
         [ApprovalIds ->
            {PendingItem("INC-1")}
            \cup {DecidedItem("INC-1", s, "alice", 0) : s \in {"approved", "rejected"}}]
    /\ incidents = [i \in IncidentIds |-> NewIncident]
    /\ remediation_log = <<>>
    /\ notifications = <<>>
    /\ triggered = <<>>
    /\ inv = [n \in Invocations |-> IdleInvocation]
    /\ pc = "idle"
    /\ event = NoEvent
    /\ results = NoResult
    /\ executed = <<>>
    /\ faults = {}
    /\ agent = IdleAgent
    /\ verifier = IdleVerifier
    /\ circuit_breaker_table = NoItems
    /\ calls = [c \in Callers |-> IdleCall]
    /\ consecutive = [s \in Services |-> 0]
    /\ InitEngine

NextExec ==
    \/ /\ pc = "idle"
       /\ \E i \in IncidentIds, p \in Plans, a \in ApprovalIdInputs,
             e \in BOOLEAN : ExecBegin(i, p, a, e)
    \/ \E raised \in BOOLEAN : ExecImmediate(raised)
    \/ \E raised \in BOOLEAN : ExecCorrective(raised)
    \/ \E le \in BOOLEAN, ie \in BOOLEAN : ExecFinish(le, ie)

SpecExec == InitExec /\ [][NextExec]_vars

\* ------------------------------------------------------ approval processor

\* A return of process_approval: the locals are gone, the return value stays.
Returned(call, result) ==
    [IdleInvocation EXCEPT !.pc = "returned", !.approval_id = call.approval_id,
                           !.action = call.action, !.result = result]

\* ApprovalProcessor._get_approval: the item, or None (here <<>>) when there
\* is none or the query raised.
get_approval(store, approval_id, store_error) ==
    IF store_error \/ approval_id \notin DOMAIN store THEN <<>>
    ELSE <<store[approval_id]>>

\* The status check refusing only a rejected approval.
AlreadyProcessed_rejected_only(approval) ==
    Get(approval, "status", "pending") = "rejected"

\* process_approval, lines 60-62: the approval read is not pending.
AlreadyProcessed(approval) == Get(approval, "status", "pending") # "pending"

\* process_approval, line 69.
NewStatus(action) == IF action = "approve" THEN "approved" ELSE "rejected"

\* ApprovalProcessor._update_approval_status: one unconditional update_item
\* setting status, approver and approved_at, and comments when truthy.
update_approval_status(store, approval_id, status, approver, comments, t) ==
    [store EXCEPT ![approval_id] =
        [@ EXCEPT !.status = status,
                  !.approver = approver,
                  !.approved_at = <<t>>,
                  !.comments = IF Truthy(comments) THEN comments ELSE @]]

\* ApprovalProcessor._update_incident_timeline: one event appended to the
\* incident's timeline, nothing when there is no such incident.
ApprovalTimeline(table, incident_id, approval_id, status, approver, t) ==
    IF incident_id \notin DOMAIN table THEN table
    ELSE [table EXCEPT ![incident_id].timeline = Append(@,
            [timestamp |-> t,
             event |-> IF status = "approved" THEN "approval_approved"
                       ELSE "approval_rejected",
             actor |-> approver,
             details |-> <<approval_id, status, approver>>])]

\* process_approval up to the status check (lines 45-66): the action is
\* validated, the approval is read, and a call on a missing or decided
\* approval returns its failure.
PACall(n, approval_id, action, approver, comments, store_error) ==
    /\ inv[n].pc = "idle"
    /\ LET call == [IdleInvocation EXCEPT
                        !.approval_id = approval_id, !.action = action,
                        !.approver = approver, !.comments = comments]
           approval == get_approval(approvals, approval_id, store_error)
       IN inv' = [inv EXCEPT ![n] =
            IF action \notin {"approve", "reject"}
            THEN Returned(call, Failure("invalid_action"))
            ELSE IF approval = <<>>
            THEN Returned(call, Failure("not_found"))
            ELSE IF AlreadyProcessed(approval[1])
            THEN Returned(call, Failure("already_processed"))
            ELSE [call EXCEPT !.pc = "update", !.approval = approval]]
    /\ UNCHANGED <<agent, verifier, engineVars, breakerVars>>
    /\ UNCHANGED <<now, approvals, incidents, remediation_log, notifications,
                   triggered, pc, event, results, executed, faults>>

\* process_approval, lines 68-81: the status is written; a raised update is
\* caught and the call returns its failure.
PAUpdate(n, store_error) ==
    /\ inv[n].pc = "update"
    /\ IF store_error
       THEN /\ inv' = [inv EXCEPT ![n] = Returned(@, Failure("update_failed"))]
            /\ UNCHANGED approvals
       ELSE /\ approvals' = update_approval_status(approvals, inv[n].approval_id,
                                NewStatus(inv[n].action), inv[n].approver,
                                inv[n].comments, now)
            /\ inv' = [inv EXCEPT ![n].pc = "notify"]
    /\ UNCHANGED <<agent, verifier, engineVars, breakerVars>>
    /\ UNCHANGED <<now, incidents, remediation_log, notifications, triggered,
                   pc, event, results, executed, faults>>

\* process_approval, lines 83-124: the notification, the timeline event (a
\* raised update is caught), the execution trigger of an approval, and the
\* return of the success.
PAFinish(n, incident_error) ==
    /\ inv[n].pc = "notify"
    /\ LET new_status == NewStatus(inv[n].action)
           incident_id == Get(inv[n].approval[1], "incident_id", None)
       IN /\ notifications' = Append(notifications,
                <<inv[n].approval_id, incident_id, new_status, inv[n].approver>>)
          /\ incidents' =
                IF incident_error THEN incidents
                ELSE ApprovalTimeline(incidents, incident_id, inv[n].approval_id,
                                      new_status, inv[n].approver, now)
          /\ triggered' =
                IF inv[n].action = "approve"
                THEN Append(triggered, <<incident_id, inv[n].approval_id>>)
                ELSE triggered
          /\ inv' = [inv EXCEPT ![n] = Returned(@, Success(new_status))]
    /\ UNCHANGED <<agent, verifier, engineVars, breakerVars>>
    /\ UNCHANGED <<now, approvals, remediation_log, pc, event, results,
                   executed, faults>>

\* ----------------------------------------------- API handler: PUT /approvals

\* update_approval: 400 on a status other than 'approved'/'rejected', 404 when
\* the approval does not exist, else one unconditional update_item setting
\* status, comments and updated_at.
ApiUpdateApproval(approval_id, status, comments) ==
    /\ IF status \in {"approved", "rejected"} /\ approval_id \in DOMAIN approvals
       THEN approvals' = [approvals EXCEPT ![approval_id] =
                [@ EXCEPT !.status = status, !.comments = comments,
                          !.updated_at = <<now>>]]
       ELSE UNCHANGED approvals
    /\ UNCHANGED <<agent, verifier, engineVars, breakerVars>>
    /\ UNCHANGED <<now, incidents, remediation_log, notifications, triggered,
                   inv, pc, event, results, executed, faults>>

\* The clock advances.
Tick ==
    /\ now < MaxTime
    /\ now' = now + 1
    /\ UNCHANGED <<agent, verifier, engineVars, breakerVars>>
    /\ UNCHANGED <<approvals, incidents, remediation_log, notifications,
                   triggered, inv, pc, event, results, executed, faults>>

\* ------------------------------------------------ approval specification

\* The approval queue as the remediation agent leaves it: one pending
\* approval of an existing incident.  Decisions arrive through
\* process_approval invocations, which may overlap, and through the API.
InitApproval ==
    /\ now = 0
    /\ approvals = [a \in ApprovalIds |-> PendingItem("INC-1")]
    /\ incidents = [i \in IncidentIds |-> NewIncident]
    /\ remediation_log = <<>>
    /\ notifications = <<>>
    /\ triggered = <<>>
    /\ inv = [n \in Invocations |-> IdleInvocation]
    /\ pc = "idle"
    /\ event = NoEvent
    /\ results = NoResult
    /\ executed = <<>>
    /\ faults = {}
    /\ agent = IdleAgent
    /\ verifier = IdleVerifier
    /\ circuit_breaker_table = NoItems
    /\ calls = [c \in Callers |-> IdleCall]
    /\ consecutive = [s \in Services |-> 0]
    /\ InitEngine

\* The process_approval invocations alone.
NextProcessApproval ==
    \/ \E n \in Invocations :
          /\ inv[n].pc = "idle"
          /\ \E a \in ApprovalIds \cup {"APPR-404"},
                d \in {"approve", "reject", "bogus"},
                c \in {None, "ok"}, e \in BOOLEAN :
                    PACall(n, a, d, ApproverOf(n), c, e)
    \/ \E n \in Invocations, e \in BOOLEAN : PAUpdate(n, e)
    \/ \E n \in Invocations, e \in BOOLEAN : PAFinish(n, e)
    \/ Tick

NextApproval ==
    \/ NextProcessApproval
    \/ \E a \in ApprovalIds \cup {"APPR-404"},
          st \in {"approved", "rejected", "bogus"}, c \in {Empty, "ok"} :
              ApiUpdateApproval(a, st, c)

\* Every entry point that writes an approval.
SpecApproval == InitApproval /\ [][NextApproval]_vars

\* Overlapping process_approval invocations and no other writer.
SpecProcessApproval == InitApproval /\ [][NextProcessApproval]_vars

\* ------------------------------------------------------ approval: claims

\* C4: an approval item is written only while its status is 'pending': its
\* status is set at most once, by whichever entry point writes it.
C4_StatusSetOnce ==
    [][\A a \in DOMAIN approvals :
          approvals'[a] # approvals[a] => approvals[a].status = "pending"]_vars

C6_AtMostOneSuccess ==
    \A m, n \in Invocations :
        (/\ inv[m].pc = "returned" /\ inv[m].action = "approve"
         /\ inv[n].pc = "returned" /\ inv[n].action = "reject"
         /\ inv[m].approval_id = inv[n].approval_id)
            => /\ ~(inv[m].result.success /\ inv[n].result.success)
               /\ inv[m].result.success
                    => approvals[inv[m].approval_id].status = "approved"
               /\ inv[n].result.success
                    => approvals[inv[n].approval_id].status = "rejected"

\* ------------------------------------------------------ executor: claims

\* The plan of the executor invocation, and the results it has recorded.
CalledPlan == event.remediation_plan
Called == pc # "idle"
Executing == "failed_actions" \in DOMAIN results
RecordedResults ==
    IF Executing THEN results.immediate_actions \o results.corrective_actions
    ELSE <<>>

\* The stored approval with this id has status 'approved'.
StoredApproved(approval_id) ==
    /\ approval_id \in DOMAIN approvals
    /\ approvals[approval_id].status = "approved"

\* The call named an approval that the store does not report as approved:
\* no item, another status, or a query that raised.
Unapproved ==
    /\ Truthy(event.approval_id)
    /\ ~StoredApproved(event.approval_id) \/ "approval_query" \in faults

\* The plan holds an action with risk=high and reversible=false.
HasHighIrreversible(p) ==
    \E i \in DOMAIN AllActions(p) :
        AllActions(p)[i].risk = "high" /\ AllActions(p)[i].reversible = FALSE

\* The i-th immediate action is flagged critical and its recorded result is
\* a failure.
CriticalFailureAt(i) ==
    /\ Executing
    /\ i <= Len(results.immediate_actions)
    /\ ~results.immediate_actions[i].success
    /\ CalledPlan.immediate_actions[i].critical = TRUE

\* C1: no action of a plan the Risk Assessor classifies 'high' is executed
\* unless the call names an approval whose stored status is 'approved'.
C1_HighRiskNeedsApproval ==
    (executed # <<>> /\ assess_risk(CalledPlan) = "high")
        => (Truthy(event.approval_id) /\ StoredApproved(event.approval_id))

\* C2: a call that names an approval the store does not report as approved
\* (no item, pending, rejected, query error) has returned 'blocked' and has
\* executed nothing, whether or not its plan passes the safety check.
C2_UnapprovedIsBlocked ==
    (Called /\ Unapproved)
        => /\ pc = "returned"
           /\ results.status = "blocked"
           /\ results.executed_actions = <<>>
           /\ executed = <<>>

C2_Witness ==
    /\ pc = "returned"
    /\ results.status = "blocked"
    /\ event.approval_id = "APPR-1"
    /\ approvals["APPR-1"].status = "pending"
    /\ HasHighIrreversible(CalledPlan)

\* C3 as stated: every call on a plan with a high-risk irreversible action
\* returns 'aborted' with nothing executed.
C3_AlwaysAborted ==
    (Called /\ HasHighIrreversible(CalledPlan))
        => (results.status = "aborted" /\ executed = <<>>)

\* C3 as amended: every call on a plan with a high-risk irreversible action
\* returns before any action executes, with status 'blocked' when it names an
\* approval that is not approved and 'aborted' otherwise.
C3_AbortedUnlessBlocked ==
    (Called /\ HasHighIrreversible(CalledPlan))
        => /\ pc = "returned"
           /\ executed = <<>>
           /\ results.status = IF Unapproved THEN "blocked" ELSE "aborted"
           /\ results.executed_actions = <<>>

C3_Witness ==
    /\ pc = "returned"
    /\ results.status = "aborted"
    /\ event.approval_id = "APPR-1"
    /\ Len(CalledPlan.immediate_actions) = 2
    /\ CalledPlan.immediate_actions[1].risk = "low"
    /\ CalledPlan.immediate_actions[1].reversible
    /\ CalledPlan.corrective_actions # <<>>
    /\ CalledPlan.corrective_actions[1].risk = "high"
    /\ ~CalledPlan.corrective_actions[1].reversible

\* C7: once an immediate action flagged critical has failed, execute has
\* returned 'failed' and that action is the last one executed: no later
\* immediate action and no corrective action ran.
C7_CriticalFailureStops ==
    \A i \in 1..Len(CalledPlan.immediate_actions) :
        CriticalFailureAt(i)
            => /\ pc = "returned"
               /\ results.status = "failed"
               /\ Len(results.immediate_actions) = i
               /\ results.corrective_actions = <<>>
               /\ Len(executed) = i

C7_Witness ==
    /\ CriticalFailureAt(1)
    /\ Len(CalledPlan.immediate_actions) = 2
    /\ Len(CalledPlan.corrective_actions) = 1
    /\ pc = "returned"

\* C8: a call that passed the pre-execution checks and met no critical
\* failure returns with every action of both lists executed, and its status is
\* 'success' iff no result is a failure, 'partial_success' iff some but not
\* all are, 'failed' iff there is a result and all are failures.
C8_StatusClassification ==
    (/\ pc = "returned"
     /\ Executing
     /\ \A i \in 1..Len(CalledPlan.immediate_actions) : ~CriticalFailureAt(i))
        => LET n == Len(RecordedResults)
               nfailed == Cardinality({k \in 1..n : ~RecordedResults[k].success})
           IN /\ Len(results.immediate_actions) = Len(CalledPlan.immediate_actions)
              /\ Len(results.corrective_actions) = Len(CalledPlan.corrective_actions)
              /\ Len(executed) = Len(AllActions(CalledPlan))
              /\ results.status = "success" <=> nfailed = 0
              /\ results.status = "partial_success" <=> (0 < nfailed /\ nfailed < n)
              /\ results.status = "failed" <=> (n > 0 /\ nfailed = n)

C8_Witness ==
    /\ pc = "returned"
    /\ Executing
    /\ results.status = "partial_success"
    /\ Len(results.immediate_actions) = 2
    /\ results.immediate_actions[1].success
    /\ ~results.immediate_actions[2].success
    /\ Len(results.corrective_actions) = 1

\* C9: the actions executed so far are, in order, the first actions of the
\* plan's immediate list followed by its corrective list: listed order, and
\* no corrective action before the last immediate one.
C9_ListedOrder ==
    /\ Len(executed) <= Len(AllActions(CalledPlan))
    /\ \A k \in 1..Len(executed) :
          executed[k] =
            <<IF k <= Len(CalledPlan.immediate_actions)
              THEN "immediate" ELSE "corrective",
              AllActions(CalledPlan)[k].action>>

C9_Witness ==
    /\ Len(executed) = 3
    /\ executed[1][1] = "immediate"
    /\ executed[2][1] = "immediate"
    /\ executed[3][1] = "corrective"

\* C10: between any two steps of an execution, failed_actions is exactly the
\* failures among the results in immediate_actions and corrective_actions, in
\* order, and those results are the results of the actions executed.
C10_FailedActions ==
    Executing
        => /\ results.failed_actions =
                SelectSeq(RecordedResults, LAMBDA r : ~r.success)
           /\ Len(RecordedResults) = Len(executed)
           /\ \A k \in 1..Len(executed) :
                 /\ RecordedResults[k].type = executed[k][1]
                 /\ RecordedResults[k].action = executed[k][2]

C10_Witness ==
    /\ pc = "corrective"
    /\ Len(results.immediate_actions) = 2
    /\ results.immediate_actions[1].success
    /\ ~results.immediate_actions[2].success
    /\ Len(results.failed_actions) = 1

\* ------------------------------------------------------ remediation agent

\* One action of a generated plan.  The plan is the reasoner's JSON, parsed
\* and not validated: an action may lack 'risk' or 'reversible'.
PlanAction(name, rk, rv) ==
    IF rk = "absent" /\ rv = "absent" THEN [action |-> name]
    ELSE IF rk = "absent" THEN [action |-> name, reversible |-> (rv = "true")]
    ELSE IF rv = "absent" THEN [action |-> name, risk |-> rk]
    ELSE [action |-> name, risk |-> rk, reversible |-> (rv = "true")]

GeneratedActions(type, i) ==
    {PlanAction(ActionName(type, i), rk, rv) :
        rk \in Risks \cup {"absent"}, rv \in {"true", "false", "absent"}}

GeneratedLists(type) ==
    UNION {{list \in [1..k -> UNION {GeneratedActions(type, i) : i \in 1..k}] :
                \A i \in 1..k : list[i].action = ActionName(type, i)} :
           k \in 0..MaxPlanActions}

\* What _generate_plan can return: a plan with both lists, or the empty
\* dict _parse_plan makes of the "{}" that _call_bedrock returns on an error.
GeneratedPlans ==
    {[immediate_actions |-> imm, corrective_actions |-> cor] :
        imm \in GeneratedLists("immediate"), cor \in GeneratedLists("corrective")}
    \cup {<<>>}

\* The approval_id _queue_for_approval draws (uuid4).
NewApprovalIds == {"APPR-2"}

\* 24 hours, in seconds.
ApprovalTtl == 86400

\* put_item: the table with the item under its key.
Put(table, key, item) ==
    [k \in DOMAIN table \cup {key} |-> IF k = key THEN item ELSE table[k]]

\* The item _queue_for_approval puts.
QueuedItem(incident_id, p, risk_level, t) ==
    [incident_id |-> incident_id, status |-> "pending", approver |-> None,
     approved_at |-> <<>>, comments |-> None, updated_at |-> <<>>,
     created_at |-> t, risk_level |-> risk_level, plan |-> p,
     requested_by |-> "remediation-agent", ttl |-> t + ApprovalTtl]

\* RemediationAgent._execute_action: simulated, always a success.
agent_execute_action(action) ==
    [action |-> Get(action, "action", None), success |-> TRUE, simulated |-> TRUE]

\* _execute_plan with every action executed, whatever its risk.
agent_execute_plan_all(p) ==
    LET all_actions == AllActions(p)
        res == [i \in DOMAIN all_actions |-> agent_execute_action(all_actions[i])]
    IN [executed_actions |-> Len(res), results |-> res,
        status |-> IF \A i \in DOMAIN res : Get(res[i], "success", FALSE)
                   THEN "completed" ELSE "partial"]

\* RemediationAgent._execute_plan: the actions with risk 'low' are executed,
\* immediate ones first; 'completed' when every result is a success.
agent_execute_plan(p) ==
    LET low(list) == SelectSeq(list, LAMBDA a : Get(a, "risk", None) = "low")
        chosen == low(Get(p, "immediate_actions", <<>>))
                    \o low(Get(p, "corrective_actions", <<>>))
        res == [i \in DOMAIN chosen |-> agent_execute_action(chosen[i])]
    IN [executed_actions |-> Len(res), results |-> res,
        status |-> IF \A i \in DOMAIN res : Get(res[i], "success", FALSE)
                   THEN "completed" ELSE "partial"]

\* RemediationAgent._update_incident: status and one timeline event in one
\* update_item; nothing when there is no such incident.
AgentUpdateIncident(table, incident_id, execution_result, t) ==
    IF incident_id \notin DOMAIN table THEN table
    ELSE [table EXCEPT ![incident_id] =
            [@ EXCEPT
                !.status = IF Get(execution_result, "status", None) = "completed"
                           THEN "resolved" ELSE "in_progress",
                !.timeline = Append(@,
                    [timestamp |-> t, event |-> "remediation_executed",
                     actor |-> "remediation_agent",
                     details |-> <<execution_result.status,
                                   execution_result.executed_actions>>])]]

\* remediate, line 48: the risk levels that need an approval.
NeedsApproval(risk_level) == risk_level \in {"high", "critical"}

\* _parse_plan's fallback: one high-risk action that is not reversible.
FallbackPlan ==
    [immediate_actions |->
        <<[action |-> <<"Manual intervention required", 0>>, command |-> "N/A",
           risk |-> "high", reversible |-> FALSE]>>,
     corrective_actions |-> <<>>,
     preventive_measures |-> <<"Review incident for patterns">>,
     estimated_duration |-> "Unknown",
     success_criteria |-> <<"Issue resolved">>]

\* RemediationAgent._call_bedrock: the reasoner's text, or "{}" when the call
\* raises.
agent_call_bedrock(outcome) ==
    IF outcome.raised THEN <<Open, Close>> ELSE outcome.text

\* RemediationAgent._parse_plan: the JSON object between the first '{' and
\* the last '}' of the response, or the fallback plan.
parse_plan(response) == parse_json(response, FallbackPlan)

\* RemediationAgent._generate_plan
generate_plan(outcome) == parse_plan(agent_call_bedrock(outcome))

\* RemediationAgent.remediate: the plan generated from the reasoner's answer,
\* its risk, and the approval queued or the plan executed.  A raised put_item
\* makes _queue_for_approval return None; a raised incident update is caught
\* and printed.
Remediate(incident_id, outcome, approval_id, put_error, incident_error) ==
    /\ agent.pc = "idle"
    /\ bedrock' = outcome
    /\ LET p == generate_plan(outcome)
           risk_level == assess_risk(p)
       IN IF NeedsApproval(risk_level)
          THEN /\ approvals' =
                    IF put_error THEN approvals
                    ELSE Put(approvals, approval_id,
                             QueuedItem(incident_id, p, risk_level, now))
               /\ agent' =
                    [pc |-> "returned", incident_id |-> incident_id, plan |-> p,
                     result |-> [incident_id |-> incident_id,
                                 status |-> "pending_approval",
                                 approval_id |-> IF put_error THEN None
                                                 ELSE approval_id,
                                 risk_level |-> risk_level, plan |-> p]]
               /\ faults' = IF put_error THEN faults \cup {"approval_put"}
                            ELSE faults
               /\ UNCHANGED incidents
          ELSE LET execution_result == agent_execute_plan(p)
               IN /\ incidents' =
                        IF incident_error THEN incidents
                        ELSE AgentUpdateIncident(incidents, incident_id,
                                                 execution_result, now)
                  /\ agent' =
                        [pc |-> "returned", incident_id |-> incident_id,
                         plan |-> p,
                         result |-> [incident_id |-> incident_id,
                                     status |-> "executed",
                                     risk_level |-> risk_level, plan |-> p,
                                     execution_result |-> execution_result]]
                  /\ faults' = IF incident_error
                               THEN faults \cup {"agent_incident_update"}
                               ELSE faults
                  /\ UNCHANGED approvals
    /\ UNCHANGED <<now, executorVars, processorVars, verifier, breakerVars,
                   invocation, rootcause, agent_state_table, escalations_table>>

\* One remediate call, on an approval queue that is empty or holds an earlier
\* pending approval.
InitAgent ==
    /\ now = 0
    /\ approvals \in {NoItems, [a \in ApprovalIds |-> PendingItem("INC-1")]}
    /\ incidents = [i \in IncidentIds |-> NewIncident]
    /\ remediation_log = <<>>
    /\ notifications = <<>>
    /\ triggered = <<>>
    /\ inv = [n \in Invocations |-> IdleInvocation]
    /\ pc = "idle"
    /\ event = NoEvent
    /\ results = NoResult
    /\ executed = <<>>
    /\ faults = {}
    /\ agent = IdleAgent
    /\ verifier = IdleVerifier
    /\ circuit_breaker_table = NoItems
    /\ calls = [c \in Callers |-> IdleCall]
    /\ consecutive = [s \in Services |-> 0]
    /\ InitEngine

\* The text of a plan, and the reasoner on a plan request: the call fails, or
\* it answers prose without a plan, an object that is no plan, or a plan
\* inside prose.
PlanText(p) ==
    IF DOMAIN p = {} THEN <<Prose, Open, Close>>
    ELSE <<Prose, Open, Members(p), Close>>
PlanOutcomes ==
    {Raises, Answers(<<Prose>>),
     Answers(<<Open, Members([note |-> "no plan"]), Close>>)}
    \cup {Answers(PlanText(p)) : p \in GeneratedPlans}

NextAgent ==
    \/ /\ agent.pc = "idle"
       /\ \E i \in IncidentIds \cup {"INC-404"}, o \in PlanOutcomes,
             a \in NewApprovalIds, pe \in BOOLEAN, ie \in BOOLEAN :
                Remediate(i, o, a, pe, ie)
    \/ Tick

SpecAgent == InitAgent /\ [][NextAgent]_vars

\* -------------------------------------------------- remediation agent: claims

\* The plan of the remediate call and the risk level it returned.
AgentReturned == agent.pc = "returned"
AgentActions == AllActions(agent.plan)

\* Some action of the plan has this risk / has reversible=false / has no risk.
HasRisk(rk) ==
    \E i \in DOMAIN AgentActions :
        "risk" \in DOMAIN AgentActions[i] /\ AgentActions[i].risk = rk
HasIrreversible ==
    \E i \in DOMAIN AgentActions :
        "reversible" \in DOMAIN AgentActions[i] /\ AgentActions[i].reversible = FALSE
LacksRisk == \E i \in DOMAIN AgentActions : "risk" \notin DOMAIN AgentActions[i]

\* The plan with each list reversed, and with the two lists exchanged.
Reverse(list) == [i \in DOMAIN list |-> list[Len(list) + 1 - i]]
ReversedPlan(p) ==
    [immediate_actions |-> Reverse(Get(p, "immediate_actions", <<>>)),
     corrective_actions |-> Reverse(Get(p, "corrective_actions", <<>>))]
ExchangedPlan(p) ==
    [immediate_actions |-> Get(p, "corrective_actions", <<>>),
     corrective_actions |-> Get(p, "immediate_actions", <<>>)]

\* C11 as stated: the assessed risk is 'high' when an action has risk=high or
\* reversible=false, else 'medium' when an action has risk=medium, else 'low'.
C11_RiskAsStated ==
    AgentReturned
        => agent.result.risk_level =
              IF HasRisk("high") \/ HasIrreversible THEN "high"
              ELSE IF HasRisk("medium") THEN "medium" ELSE "low"

\* C11 as amended: the assessed risk is 'high' when an action has risk=high or
\* reversible=false, else 'medium' when an action has risk=medium or has no
\* risk at all, else 'low'; and it is the same for the plan with its lists
\* reversed or exchanged.
C11_RiskWithDefault ==
    AgentReturned
        => /\ agent.result.risk_level =
                IF HasRisk("high") \/ HasIrreversible THEN "high"
                ELSE IF HasRisk("medium") \/ LacksRisk THEN "medium" ELSE "low"
           /\ assess_risk(ReversedPlan(agent.plan)) = agent.result.risk_level
           /\ assess_risk(ExchangedPlan(agent.plan)) = agent.result.risk_level

C11_Witness ==
    /\ AgentReturned
    /\ agent.result.risk_level = "medium"
    /\ Len(AgentActions) = 2
    /\ Get(AgentActions[1], "risk", None) = "low"
    /\ DOMAIN AgentActions[2] = {"action"}

\* C12: a remediate call whose plan is assessed 'high' or 'critical' adds
\* exactly one approval, pending and expiring 24 hours after its creation,
\* returns 'pending_approval' with that approval's id, executes nothing and
\* leaves the incidents as they are; a call whose plan is assessed 'low' or
\* 'medium' adds no approval and returns 'executed'.
C12_HighQueuesOneApproval ==
    [][(agent.pc = "idle" /\ agent'.pc = "returned")
          => IF agent'.result.risk_level \in {"high", "critical"}
             THEN /\ agent'.result.status = "pending_approval"
                  /\ agent'.result.approval_id \notin DOMAIN approvals
                  /\ DOMAIN approvals' =
                        DOMAIN approvals \cup {agent'.result.approval_id}
                  /\ \A a \in DOMAIN approvals : approvals'[a] = approvals[a]
                  /\ approvals'[agent'.result.approval_id].status = "pending"
                  /\ approvals'[agent'.result.approval_id].ttl =
                        approvals'[agent'.result.approval_id].created_at + 86400
                  /\ "execution_result" \notin DOMAIN agent'.result
                  /\ incidents' = incidents
             ELSE /\ agent'.result.status = "executed"
                  /\ approvals' = approvals]_vars

\* ---------------------------------------------------- resolution verifier

\* Number of timeline events an incident collects from its verifications.
MaxTimeline == 1

\* The remediation_plan of a verifier event: none (None or an empty dict,
\* both falsy), or a plan with or without success criteria.
RemediationPlanInputs ==
    {<<>>, [success_criteria |-> <<>>], [success_criteria |-> <<"criterion">>],
     [immediate_actions |-> <<>>]}

\* `if remediation_plan:` for a dict or None.
HasPlan(remediation_plan) == DOMAIN remediation_plan # {}

\* (passed_checks / total_checks) * 100 with floor division.
Confidence_floor_division(passed_checks, total_checks) ==
    [num |-> (passed_checks \div total_checks) * 100, den |-> 1]

\* verify_resolution, line 93: (passed_checks / total_checks) * 100, a float,
\* held as the exact fraction num/den.
Confidence(passed_checks, total_checks) ==
    [num |-> passed_checks * 100, den |-> total_checks]

\* confidence >= n
AtLeast(confidence, n) == confidence.num >= n * confidence.den

\* verify_resolution, lines 59-94: the verification result from the outcomes
\* of the checks made.  The three checks always run; the success criteria are
\* checked only when there is a plan.
verification_result_of(incident_id, remediation_plan, check) ==
    LET metrics_check == check.metrics
        logs_check == check.error_logs
        health_check == check.service_health
        criteria_check == check.success_criteria
        all_checks == <<metrics_check, logs_check, health_check>>
                        \o (IF HasPlan(remediation_plan)
                            THEN <<criteria_check>> ELSE <<>>)
        passed_checks ==
            Cardinality({i \in DOMAIN all_checks : Get(all_checks[i], "passed", FALSE)})
        total_checks == Len(all_checks)
        confidence == Confidence(passed_checks, total_checks)
    IN [incident_id |-> incident_id,
        verified |-> AtLeast(confidence, 75),
        checks |-> [metrics |-> metrics_check, error_logs |-> logs_check,
                    service_health |-> health_check,
                    success_criteria |-> IF HasPlan(remediation_plan)
                                         THEN criteria_check ELSE <<>>],
        summary |-> <<AtLeast(confidence, 75), passed_checks, total_checks>>,
        confidence |-> confidence]

\* ResolutionVerifier._update_incident: status, verification_result and one
\* timeline event in one update_item; nothing when there is no such incident.
VerifierUpdateIncident(table, incident_id, result, t) ==
    IF incident_id \notin DOMAIN table THEN table
    ELSE [table EXCEPT ![incident_id] =
            [@ EXCEPT
                !.status = IF result.verified THEN "resolved" ELSE "monitoring",
                !.timeline = Append(@,
                    [timestamp |-> t,
                     event |-> IF result.verified THEN "resolution_verified"
                               ELSE "verification_uncertain",
                     actor |-> "resolution_verifier",
                     details |-> <<result.verified, result.confidence>>])]]

\* ResolutionVerifier.verify_resolution.  The outcomes of the four checks are
\* inputs (a check passes unless it raises, and in production it queries
\* CloudWatch); a raised query or update of the incident is caught and printed.
VerifyResolution(incident_id, remediation_plan, m, l, h, c, store_error) ==
    /\ LET result == verification_result_of(incident_id, remediation_plan,
                        [metrics |-> [passed |-> m],
                         error_logs |-> [passed |-> l],
                         service_health |-> [passed |-> h],
                         success_criteria |-> [passed |-> c]])
       IN /\ incidents' =
                IF store_error THEN incidents
                ELSE VerifierUpdateIncident(incidents, incident_id, result, now)
          /\ verifier' = [pc |-> "returned", incident_id |-> incident_id,
                          remediation_plan |-> remediation_plan,
                          result |-> result]
    /\ faults' = IF store_error THEN faults \cup {"verifier_incident_update"}
                 ELSE faults
    /\ UNCHANGED <<now, approvals, executorVars, processorVars, agent, breakerVars,
                   engineVars>>

\* The verifier is invoked again and again on incidents as the executor
\* leaves them.
InitVerifier ==
    /\ now = 0
    /\ approvals = NoItems
    /\ incidents \in [IncidentIds ->
                        {[NewIncident EXCEPT !.status = st] :
                            st \in {"in_progress", "resolved"}}]
    /\ remediation_log = <<>>
    /\ notifications = <<>>
    /\ triggered = <<>>
    /\ inv = [n \in Invocations |-> IdleInvocation]
    /\ pc = "idle"
    /\ event = NoEvent
    /\ results = NoResult
    /\ executed = <<>>
    /\ faults = {}
    /\ agent = IdleAgent
    /\ verifier = IdleVerifier
    /\ circuit_breaker_table = NoItems
    /\ calls = [c \in Callers |-> IdleCall]
    /\ consecutive = [s \in Services |-> 0]
    /\ InitEngine

NextVerifier ==
    \/ /\ \A i \in DOMAIN incidents : Len(incidents[i].timeline) < MaxTimeline
       /\ \E i \in IncidentIds \cup {"INC-404"}, rp \in RemediationPlanInputs,
             m \in BOOLEAN, l \in BOOLEAN, h \in BOOLEAN, c \in BOOLEAN,
             e \in BOOLEAN : VerifyResolution(i, rp, m, l, h, c, e)
    \/ Tick

SpecVerifier == InitVerifier /\ [][NextVerifier]_vars

\* ------------------------------------------- resolution verifier: claims

\* The checks the returned verification performed, and how many passed.
PerformedChecks ==
    <<verifier.result.checks.metrics, verifier.result.checks.error_logs,
      verifier.result.checks.service_health>>
        \o (IF HasPlan(verifier.remediation_plan)
            THEN <<verifier.result.checks.success_criteria>> ELSE <<>>)
PassedCount == Cardinality({i \in DOMAIN PerformedChecks : PerformedChecks[i].passed})

\* C13: an incident's status becomes 'resolved' only in a step in which a
\* verification with confidence >= 75 returns.
C13_ResolvedOnlyByVerification ==
    [][\A i \in DOMAIN incidents :
          (incidents[i].status # "resolved" /\ incidents'[i].status = "resolved")
            => /\ verifier' # verifier
               /\ verifier'.incident_id = i
               /\ AtLeast(verifier'.result.confidence, 75)]_vars

\* C14: a returned verification performed 3 checks without a plan and 4 with
\* one, its confidence is 100 * passed / performed, within [0, 100], and it is
\* verified iff confidence >= 75, iff 4 * passed >= 3 * performed.
C14_ConfidenceRatio ==
    verifier.pc = "returned"
        => LET confidence == verifier.result.confidence
               total == Len(PerformedChecks)
           IN /\ total = IF HasPlan(verifier.remediation_plan) THEN 4 ELSE 3
              /\ confidence.den > 0
              /\ confidence.num * total = 100 * PassedCount * confidence.den
              /\ 0 <= confidence.num
              /\ confidence.num <= 100 * confidence.den
              /\ verifier.result.verified <=> 4 * PassedCount >= 3 * total
              /\ verifier.result.verified <=> confidence.num >= 75 * confidence.den

C14_Witness ==
    /\ verifier.pc = "returned"
    /\ Len(PerformedChecks) = 4
    /\ PassedCount = 3
    /\ verifier.result.verified

\* C15: a verify_resolution call on an existing incident leaves the incident
\* with status 'resolved' and one more timeline event 'resolution_verified'
\* when it is verified, and with status 'monitoring' and one more timeline
\* event 'verification_uncertain' otherwise.
C15_StatusWrittenOnce ==
    [][(verifier' # verifier /\ verifier'.incident_id \in DOMAIN incidents)
          => LET i == verifier'.incident_id
                 verified == verifier'.result.verified
             IN /\ incidents'[i].status =
                      IF verified THEN "resolved" ELSE "monitoring"
                /\ Len(incidents'[i].timeline) = Len(incidents[i].timeline) + 1
                /\ incidents'[i].timeline[Len(incidents'[i].timeline)].event =
                      IF verified THEN "resolution_verified"
                      ELSE "verification_uncertain"]_vars

\* --------------------------------------------------------- circuit breaker

\* CircuitBreaker.__init__: the defaults, which MCPTools uses.
failure_threshold == 5
timeout == 60

\* The clock of the breaker specifications advances by half a timeout, so
\* that a check falls before, at and after the timeout.
ClockStep == timeout \div 2

\* The tools and the breaker each one checks (MCPTools.__init__).
Tools == {"get_cpu_metrics", "get_error_logs"}

\* Both tools checking the CloudWatch breaker.
BreakerOf_shared(tool) == "cloudwatch"

BreakerOf(tool) ==
    IF tool = "get_cpu_metrics" THEN "cloudwatch" ELSE "cloudwatch_logs"

\* CircuitBreaker.get_state: the stored item, a CLOSED default when there is
\* none, and a CLOSED default without last_failure_time when get_item raised.
get_state(table, service_name, read_error) ==
    IF read_error
    THEN [service_name |-> service_name, state |-> "CLOSED", failure_count |-> 0]
    ELSE IF service_name \in DOMAIN table THEN table[service_name]
    ELSE [service_name |-> service_name, state |-> "CLOSED", failure_count |-> 0,
          last_failure_time |-> 0]

\* The item record_success puts.
SuccessItem(service_name, t) ==
    [service_name |-> service_name, state |-> "CLOSED", failure_count |-> 0,
     last_success_time |-> t, ttl |-> t + 300]

\* record_failure opening the circuit only past the threshold.
NewState_past_threshold(failure_count) ==
    IF failure_count > failure_threshold THEN "OPEN" ELSE "CLOSED"

\* record_failure, line 63.
NewState(failure_count) ==
    IF failure_count >= failure_threshold THEN "OPEN" ELSE "CLOSED"

\* The item record_failure puts.
FailureItem(service_name, failure_count, t) ==
    [service_name |-> service_name, state |-> NewState(failure_count),
     failure_count |-> failure_count, last_failure_time |-> t,
     ttl |-> t + timeout]

\* is_open blocking only until the timeout is reached.
is_open_until_timeout(state, t) ==
    IF Get(state, "state", None) = "OPEN"
    THEN ~(t - Get(state, "last_failure_time", 0) >= timeout)
    ELSE FALSE

\* CircuitBreaker.is_open on the state read, at time t.
is_open(state, t) ==
    IF Get(state, "state", None) = "OPEN"
    THEN ~(t - Get(state, "last_failure_time", 0) > timeout)
    ELSE FALSE

\* The results of a tool call.
CircuitOpenResult(tool) ==
    [error |-> IF tool = "get_cpu_metrics"
               THEN "Circuit breaker OPEN for CloudWatch"
               ELSE "Circuit breaker OPEN for CloudWatch Logs",
     retry_after |-> 60]
ErrorResult == [error |-> "str(e)"]
DataResult(tool) ==
    IF tool = "get_cpu_metrics" THEN [metric |-> "Duration"]
    ELSE [pattern |-> "ERROR"]

\* get_cpu_metrics / get_error_logs, the breaker check (lines 113-115,
\* 191-193): the state is read, and an open breaker ends the call.
ToolCall(c, tool, read_error) ==
    /\ calls[c].pc \in {"idle", "returned"}
    /\ LET state == get_state(circuit_breaker_table, BreakerOf(tool), read_error)
           call == [IdleCall EXCEPT !.tool = tool, !.read_error = read_error]
       IN calls' = [calls EXCEPT ![c] =
            IF is_open(state, now)
            THEN [call EXCEPT !.pc = "returned", !.result = CircuitOpenResult(tool)]
            ELSE [call EXCEPT !.pc = "query"]]
    /\ faults' = IF read_error THEN faults \cup {"breaker_read"} ELSE faults
    /\ UNCHANGED <<now, approvals, incidents, executorVars, processorVars,
                   agent, verifier, engineVars, circuit_breaker_table, consecutive>>

\* The except handler returning its error without record_failure.
ToolQuery_unrecorded_failure(c, raised, write_error) ==
    /\ calls[c].pc = "query"
    /\ LET service_name == BreakerOf(calls[c].tool)
       IN IF raised = "none"
          THEN /\ circuit_breaker_table' =
                    IF write_error THEN circuit_breaker_table
                    ELSE Put(circuit_breaker_table, service_name,
                             SuccessItem(service_name, now))
               /\ consecutive' = [consecutive EXCEPT ![service_name] = 0]
               /\ calls' = [calls EXCEPT ![c] =
                    [@ EXCEPT !.pc = "returned", !.queried = TRUE,
                              !.recorded = Append(@, "success"),
                              !.result = DataResult(calls[c].tool)]]
               /\ faults' = IF write_error THEN faults \cup {"breaker_write"}
                            ELSE faults
          ELSE /\ calls' = [calls EXCEPT ![c] =
                    [@ EXCEPT !.pc = "returned",
                              !.queried = (raised = "query"),
                              !.result = ErrorResult]]
               /\ UNCHANGED <<circuit_breaker_table, consecutive, faults>>
    /\ UNCHANGED <<now, approvals, incidents, executorVars, processorVars,
                   agent, verifier, engineVars>>

\* The try block (lines 117-170, 195-233).  The parameters are read and the
\* time range computed, which raises on malformed parameters; then the
\* CloudWatch query is made, which may raise; then record_success puts its
\* item (a raised put_item is caught and printed) and the result is returned.
\* An exception leads to the handler's record_failure.
ToolQuery(c, raised, write_error) ==
    /\ calls[c].pc = "query"
    /\ LET service_name == BreakerOf(calls[c].tool)
       IN IF raised = "none"
          THEN /\ circuit_breaker_table' =
                    IF write_error THEN circuit_breaker_table
                    ELSE Put(circuit_breaker_table, service_name,
                             SuccessItem(service_name, now))
               /\ consecutive' = [consecutive EXCEPT ![service_name] = 0]
               /\ calls' = [calls EXCEPT ![c] =
                    [@ EXCEPT !.pc = "returned", !.queried = TRUE,
                              !.recorded = Append(@, "success"),
                              !.result = DataResult(calls[c].tool)]]
               /\ faults' = IF write_error THEN faults \cup {"breaker_write"}
                            ELSE faults
          ELSE /\ calls' = [calls EXCEPT ![c] =
                    [@ EXCEPT !.pc = "record_failure",
                              !.queried = (raised = "query")]]
               /\ UNCHANGED <<circuit_breaker_table, consecutive, faults>>
    /\ UNCHANGED <<now, approvals, incidents, executorVars, processorVars,
                   agent, verifier, engineVars>>

\* record_failure, lines 61-63: the state is read and the new count computed.
RecordFailureRead(c, read_error) ==
    /\ calls[c].pc = "record_failure"
    /\ LET state == get_state(circuit_breaker_table, BreakerOf(calls[c].tool),
                              read_error)
       IN calls' = [calls EXCEPT ![c] =
            [@ EXCEPT !.pc = "put_item",
                      !.failure_count = Get(state, "failure_count", 0) + 1]]
    /\ faults' = IF read_error THEN faults \cup {"breaker_read"} ELSE faults
    /\ UNCHANGED <<now, approvals, incidents, executorVars, processorVars,
                   agent, verifier, engineVars, circuit_breaker_table, consecutive>>

\* record_failure, lines 65-76, and the handler's return (lines 172-174,
\* 235-237): the item is put (a raised put_item is caught and printed) and
\* the call returns its error.
RecordFailureWrite(c, write_error) ==
    /\ calls[c].pc = "put_item"
    /\ LET service_name == BreakerOf(calls[c].tool)
       IN /\ circuit_breaker_table' =
                IF write_error THEN circuit_breaker_table
                ELSE Put(circuit_breaker_table, service_name,
                         FailureItem(service_name, calls[c].failure_count, now))
          /\ consecutive' = [consecutive EXCEPT ![service_name] = @ + 1]
    /\ calls' = [calls EXCEPT ![c] =
            [@ EXCEPT !.pc = "returned", !.recorded = Append(@, "failure"),
                      !.result = ErrorResult]]
    /\ faults' = IF write_error THEN faults \cup {"breaker_write"} ELSE faults
    /\ UNCHANGED <<now, approvals, incidents, executorVars, processorVars,
                   agent, verifier, engineVars>>

\* The clock advances.
Elapse ==
    /\ now < MaxElapse * ClockStep
    /\ now' = now + ClockStep
    /\ UNCHANGED <<approvals, incidents, executorVars, processorVars, faults,
                   agent, verifier, engineVars, breakerVars>>

\* The breaker specifications start from this state but for the table and
\* the count of failures in a row.
InitBreakerRest ==
    /\ now = 0
    /\ approvals = NoItems
    /\ incidents = [i \in IncidentIds |-> NewIncident]
    /\ remediation_log = <<>>
    /\ notifications = <<>>
    /\ triggered = <<>>
    /\ inv = [n \in Invocations |-> IdleInvocation]
    /\ pc = "idle"
    /\ event = NoEvent
    /\ results = NoResult
    /\ executed = <<>>
    /\ faults = {}
    /\ agent = IdleAgent
    /\ verifier = IdleVerifier
    /\ calls = [c \in Callers |-> IdleCall]
    /\ InitEngine

\* An empty breaker table: no call was made yet, or the items have expired.
InitBreakerSequential ==
    /\ InitBreakerRest
    /\ circuit_breaker_table = NoItems
    /\ consecutive = [s \in Services |-> 0]

\* The table after some failures in a row at time 0 on each service: none,
\* one short of the threshold, or the threshold.
StoredFailures == {0, failure_threshold - 1, failure_threshold}
TableAfter(n) ==
    LET failed == {s \in Services : n[s] > 0}
    IN [s \in failed |-> FailureItem(s, n[s], 0)]

InitBreaker ==
    /\ InitBreakerRest
    /\ \E n \in [Services -> StoredFailures] :
          /\ circuit_breaker_table = TableAfter(n)
          /\ consecutive = n

\* The steps of the calls a caller has begun.
CallSteps(c) ==
    \/ \E raised \in {"none", "params", "query"}, e \in BOOLEAN :
          ToolQuery(c, raised, e)
    \/ \E e \in BOOLEAN : RecordFailureRead(c, e)
    \/ \E e \in BOOLEAN : RecordFailureWrite(c, e)

\* The failure_count stored for a service.
StoredCount(service_name) ==
    Get(get_state(circuit_breaker_table, service_name, FALSE), "failure_count", 0)

\* One caller making one call after the other on one dependency, as time
\* passes.
NextBreakerSequential ==
    \/ \E tool \in {"get_cpu_metrics"}, e \in BOOLEAN :
          /\ consecutive[BreakerOf(tool)] < MaxConsecutive
          /\ StoredCount(BreakerOf(tool)) < MaxConsecutive
          /\ ToolCall(1, tool, e)
    \/ CallSteps(1)
    \/ Elapse

SpecBreakerSequential == InitBreakerSequential /\ [][NextBreakerSequential]_vars

\* Every caller making one call, the calls overlapping in any way.
NextBreaker ==
    \/ \E c \in Callers, tool \in Tools, e \in BOOLEAN :
          /\ calls[c].pc = "idle"
          /\ ToolCall(c, tool, e)
    \/ \E c \in Callers : CallSteps(c)

SpecBreaker == InitBreaker /\ [][NextBreaker]_vars

\* ------------------------------------------------- circuit breaker: claims

\* The item stored for a service (the CLOSED default when there is none).
StoredState(service_name) == get_state(circuit_breaker_table, service_name, FALSE)

\* No call is between two of its steps.
Quiescent == \A c \in Callers : calls[c].pc \in {"idle", "returned"}

\* This step is the breaker check of a call by caller c.
Began(c) == calls[c].pc \in {"idle", "returned"} /\ calls'[c] # calls[c]

\* The breaker the specification gives each tool.
MatchingBreaker(tool) ==
    IF tool = "get_cpu_metrics" THEN "cloudwatch"
    ELSE IF tool = "get_error_logs" THEN "cloudwatch_logs" ELSE None

\* The time since the stored last_failure_time.
Elapsed(service_name) == now - Get(StoredState(service_name), "last_failure_time", 0)

Recorders(service_name, outcome) ==
    {c \in Callers : /\ MatchingBreaker(calls[c].tool) = service_name
                     /\ calls[c].recorded = <<outcome>>}

\* C18: once overlapping calls that recorded failures and no success have all
\* returned, with no table operation raised, the stored failure_count has
\* grown by the number of record_failure calls.
C18_NoLostUpdate ==
    (Quiescent /\ faults = {})
        => \A s \in Services :
              Recorders(s, "success") = {} => StoredCount(s) = consecutive[s]

C20_OneOutcomePerCall ==
    \A c \in Callers :
        /\ calls[c].pc \in {"idle", "query", "record_failure", "put_item", "returned"}
        /\ calls[c].pc \in {"query", "record_failure", "put_item"}
              => calls[c].recorded = <<>>
        /\ (calls[c].pc = "returned"
            /\ calls[c].result # CircuitOpenResult(calls[c].tool))
              => \/ /\ calls[c].result = DataResult(calls[c].tool)
                    /\ calls[c].recorded = <<"success">>
                    /\ calls[c].queried
                 \/ /\ calls[c].result = ErrorResult
                    /\ calls[c].recorded = <<"failure">>

C20_Witness ==
    \E c \in Callers :
        /\ calls[c].pc = "returned"
        /\ calls[c].result = ErrorResult
        /\ calls[c].queried
        /\ calls[c].recorded = <<"failure">>
        /\ "breaker_write" \in faults

\* ------------------------------------------------------- root-cause agent

\* RootCauseAgent.__init__
max_iterations == 5

\* The tools _execute_action passes to ITOps-MCP-Monitoring.
InvestigationTools ==
    {"get_cpu_metrics", "get_error_logs", "check_service_health",
     "get_memory_metrics"}

\* Actions the reasoner may word in its answer to _decide_action.
ToolAction(tool) == [type |-> tool, parameters |-> <<>>]
ConcludeAction == [type |-> "conclude", conclusion |-> "root cause"]

\* _parse_action answering 'conclude' when the response has no JSON object.
parse_action_conclude_by_default(response) ==
    parse_json(response, [type |-> "conclude"])

\* RootCauseAgent._parse_action: the JSON object between the first '{' and the
\* last '}' of the response, or the check_service_health action.
parse_action(response) ==
    parse_json(response, [type |-> "check_service_health", parameters |-> <<>>])

\* RootCauseAgent._call_bedrock: the reasoner's text, or an error message when
\* the call raises.
rootcause_call_bedrock(outcome) ==
    IF outcome.raised THEN <<Prose>> ELSE outcome.text

\* RootCauseAgent._decide_action
decide_action(outcome) == parse_action(rootcause_call_bedrock(outcome))

\* What the invoked monitoring tool did: the invoke (or reading its payload)
\* raised, or it returned a result.
ToolRaised == [raised |-> TRUE, data |-> 0]
ToolData(d) == [raised |-> FALSE, data |-> d]

\* RootCauseAgent._execute_action: the observation, for an action that is not
\* 'conclude'.
rootcause_execute_action(action, tool) ==
    IF Get(action, "type", None) \in InvestigationTools
    THEN IF tool.raised
         THEN [type |-> "error", summary |-> "str(e)"]
         ELSE [type |-> "tool_result", tool |-> action.type, data |-> tool.data]
    ELSE [type |-> "error", summary |-> "Unknown action"]

\* _update_context keeping the first reading of a tool.
update_context_first_reading(gathered_data, observation) ==
    IF observation.type = "tool_result"
       /\ observation.tool \notin DOMAIN gathered_data
    THEN Put(gathered_data, observation.tool, observation.data)
    ELSE gathered_data

\* RootCauseAgent._update_context, on context['gathered_data']: a tool_result
\* is stored under its tool's name.
update_context(gathered_data, observation) ==
    IF observation.type = "tool_result"
    THEN Put(gathered_data, observation.tool, observation.data)
    ELSE gathered_data

\* The loop test with <= for <.
LoopContinues_one_more(iteration, conclusion_reached) ==
    iteration <= max_iterations /\ ~conclusion_reached

\* investigate, line 49: the while condition.
LoopContinues(iteration, conclusion_reached) ==
    iteration < max_iterations /\ ~conclusion_reached

\* _parse_report's fallback.
FallbackReport ==
    [root_cause |-> "Unable to determine definitively", confidence |-> "low",
     evidence |-> <<>>, recommendations |-> <<"Manual investigation required">>]

\* RootCauseAgent._parse_report
parse_report(response) == parse_json(response, FallbackReport)

\* lambda_handler, lines 390-407: the response to an event without an
\* incident_id or without incident data.
RootCauseMissingData(incident_id) ==
    [incident_id |-> IF Truthy(incident_id) THEN incident_id ELSE "unknown",
     root_cause |-> "Unknown", confidence |-> "low", evidence |-> <<>>,
     investigation_steps |-> 0,
     report |-> [root_cause |-> "Missing incident data", confidence |-> "low",
                 evidence |-> <<>>,
                 recommendations |-> <<"Provide valid incident data">>]]

\* lambda_handler, lines 422-439: the response when investigate raised.
RootCauseSystemError(incident_id) ==
    [incident_id |-> incident_id,
     root_cause |-> "System error during investigation", confidence |-> "low",
     evidence |-> <<"Error: str(e)">>, investigation_steps |-> 0,
     report |-> [root_cause |-> "System error prevented root cause analysis",
                 confidence |-> "low", evidence |-> <<>>,
                 recommendations |-> <<"Manual investigation required",
                                       "Check Lambda logs">>]]

\* RootCauseAgent._update_incident: one timeline event appended; nothing when
\* there is no such incident.
RootCauseUpdateIncident(table, incident_id, report, t) ==
    IF incident_id \notin DOMAIN table THEN table
    ELSE [table EXCEPT ![incident_id].timeline = Append(@,
            [timestamp |-> t, event |-> "root_cause_analysis_completed",
             actor |-> "rootcause_agent", details |-> report])]

\* The ttl of an agent state item: 7 days, in seconds.
AgentStateTtl == 604800

\* RootCauseAgent._save_state: the item put in ITOps-AgentState.
RootCauseStateItem(incident_id, log, report, t) ==
    [agent_id |-> <<"rootcause-agent", incident_id>>, timestamp |-> t,
     incident_id |-> incident_id, agent_type |-> "rootcause",
     state |-> "completed", investigation_log |-> log, report |-> report,
     ttl |-> t + AgentStateTtl]

\* lambda_handler up to the loop of investigate: an event without incident_id
\* or incident data is answered with 400; otherwise the investigation starts
\* with an empty log and context.
RootCauseBegin(e) ==
    /\ rootcause.pc = "idle"
    /\ IF MissingInput(e.incident_id, e.incident)
       THEN /\ invocation' =
                 [name |-> "rootcause", event |-> e, statusCode |-> 400,
                  result |-> RootCauseMissingData(e.incident_id)]
            /\ UNCHANGED rootcause
       ELSE /\ invocation' =
                 [name |-> "rootcause", event |-> e, statusCode |-> 0,
                  result |-> <<>>]
            /\ rootcause' =
                 [IdleInvestigation EXCEPT
                    !.incident_id = e.incident_id,
                    !.pc = IF LoopContinues(0, FALSE) THEN "loop" ELSE "report"]
    /\ UNCHANGED <<now, approvals, incidents, executorVars, processorVars,
                   faults, agent, verifier, breakerVars, bedrock,
                   agent_state_table, escalations_table>>

\* The iteration with the conclusion tested after the action was executed:
\* the observation is logged for 'conclude' too.
RootCauseIterate_observes_conclusion(outcome, tool) ==
    /\ rootcause.pc = "loop"
    /\ LET iteration == rootcause.iteration + 1
           action == decide_action(outcome)
           concluded == Get(action, "type", None) = "conclude"
           log == rootcause.investigation_log
                    \o <<[type |-> "thought", content |-> "thought"],
                         [type |-> "action", content |-> action]>>
           observation ==
               IF concluded
               THEN [type |-> "conclusion", summary |-> "Investigation complete"]
               ELSE rootcause_execute_action(action, tool)
       IN rootcause' =
            [rootcause EXCEPT
               !.pc = IF LoopContinues(iteration, concluded)
                      THEN "loop" ELSE "report",
               !.iteration = iteration,
               !.investigation_log =
                   Append(log, [type |-> "observation", content |-> observation]),
               !.conclusion_reached = concluded,
               !.root_cause = IF concluded THEN Get(action, "conclusion", None)
                              ELSE @,
               !.gathered_data = update_context(@, observation),
               !.invoked =
                   IF Get(action, "type", None) \in InvestigationTools
                   THEN Append(@, action.type) ELSE @]
    /\ UNCHANGED <<now, approvals, incidents, executorVars, processorVars,
                   faults, agent, verifier, breakerVars, bedrock, invocation,
                   agent_state_table, escalations_table>>

\* One iteration of the ReAct loop (lines 50-75): the thought, the action
\* decided from the reasoner's answer, and unless it is 'conclude' the tool
\* call, the observation and the updated context.
RootCauseIterate(outcome, tool) ==
    /\ rootcause.pc = "loop"
    /\ LET iteration == rootcause.iteration + 1
           action == decide_action(outcome)
           log == rootcause.investigation_log
                    \o <<[type |-> "thought", content |-> "thought"],
                         [type |-> "action", content |-> action]>>
           observation == rootcause_execute_action(action, tool)
       IN IF Get(action, "type", None) = "conclude"
          THEN rootcause' =
                 [rootcause EXCEPT
                    !.pc = "report", !.iteration = iteration,
                    !.investigation_log = log,
                    !.conclusion_reached = TRUE,
                    !.root_cause = Get(action, "conclusion", None)]
          ELSE rootcause' =
                 [rootcause EXCEPT
                    !.pc = IF LoopContinues(iteration, FALSE)
                           THEN "loop" ELSE "report",
                    !.iteration = iteration,
                    !.investigation_log =
                        Append(log, [type |-> "observation",
                                     content |-> observation]),
                    !.gathered_data = update_context(@, observation),
                    !.invoked =
                        IF Get(action, "type", None) \in InvestigationTools
                        THEN Append(@, action.type) ELSE @]
    /\ UNCHANGED <<now, approvals, incidents, executorVars, processorVars,
                   faults, agent, verifier, breakerVars, bedrock, invocation,
                   agent_state_table, escalations_table>>

\* investigate after the loop (lines 77-93) and the handler's response: the
\* report parsed from the reasoner's answer, the incident's timeline event,
\* the saved agent state (either write may raise; it is caught and printed),
\* and the result built from the report.  A report without 'confidence' or
\* 'evidence' raises KeyError, which the handler answers with 500.
RootCauseFinish(outcome, incident_error, state_error) ==
    /\ rootcause.pc = "report"
    /\ LET report == parse_report(rootcause_call_bedrock(outcome))
           id == rootcause.incident_id
           log == rootcause.investigation_log
       IN /\ incidents' =
                IF incident_error THEN incidents
                ELSE RootCauseUpdateIncident(incidents, id, report, now)
          /\ agent_state_table' =
                IF state_error THEN agent_state_table
                ELSE Put(agent_state_table, <<"rootcause-agent", id>>,
                         RootCauseStateItem(id, log, report, now))
          /\ invocation' =
                IF {"confidence", "evidence"} \subseteq DOMAIN report
                THEN [invocation EXCEPT
                        !.statusCode = 200,
                        !.result =
                            [incident_id |-> id,
                             root_cause |-> rootcause.root_cause,
                             confidence |-> report.confidence,
                             evidence |-> report.evidence,
                             investigation_steps |-> Len(log),
                             report |-> report]]
                ELSE [invocation EXCEPT
                        !.statusCode = 500,
                        !.result = RootCauseSystemError(id)]
    /\ faults' = faults
                    \cup (IF incident_error THEN {"rootcause_incident_update"} ELSE {})
                    \cup (IF state_error THEN {"rootcause_state_put"} ELSE {})
    /\ rootcause' = [rootcause EXCEPT !.pc = "returned"]
    /\ UNCHANGED <<now, approvals, executorVars, processorVars, agent,
                   verifier, breakerVars, bedrock, escalations_table>>

\* --------------------------------------------- root-cause agent: the inputs

\* The events of the root-cause handler: incident_id missing, or the id of a
\* stored incident; incident data missing (or empty), or
\* given.
IncidentData == [title |-> "title", severity |-> "high"]
RootCauseEvents ==
    [incident_id : {None, "INC-1"}, incident : {<<>>, IncidentData}]

\* The reasoner on a decide-action request: the call fails, or it answers
\* with an action (a tool, 'conclude', or an object without a type) inside
\* prose, or with braces the wrong way round.
DecisionOutcomes ==
    {Raises,
     Answers(<<Prose, Open, Members(ToolAction("get_cpu_metrics")), Close>>),
     Answers(<<Open, Members(ConcludeAction), Close, Prose>>),
     Answers(<<Open, Close>>),
     Answers(<<Close, Members(ConcludeAction), Open>>)}

\* The readings a tool returns.
ToolOutcomes == {ToolRaised, ToolData(1), ToolData(2)}

\* The reports the reasoner may word, and the reasoner on a report request.
WordedReports ==
    {[root_cause |-> "root cause", confidence |-> c, evidence |-> <<"evidence">>] :
        c \in {"high", "low"}}
    \cup {[root_cause |-> "root cause"]}
ReportOutcomes ==
    {Raises} \cup {Answers(<<Open, Members(r), Close>>) : r \in WordedReports}

\* One invocation of the root-cause handler.
InitRootCause ==
    /\ InitBreakerRest
    /\ circuit_breaker_table = NoItems
    /\ consecutive = [s \in Services |-> 0]

NextRootCause ==
    \/ /\ invocation = NoInvocation
       /\ \E e \in RootCauseEvents : RootCauseBegin(e)
    \/ /\ rootcause.pc = "loop"
       /\ \E o \in DecisionOutcomes, t \in ToolOutcomes : RootCauseIterate(o, t)
    \/ /\ rootcause.pc = "report"
       /\ \E o \in ReportOutcomes, ie \in BOOLEAN, se \in BOOLEAN :
             RootCauseFinish(o, ie, se)

SpecRootCause == InitRootCause /\ [][NextRootCause]_vars

\* Every reasoner call and every tool call returns or raises: an invocation
\* that can take a step takes one.
FairSpecRootCause == SpecRootCause /\ WF_vars(NextRootCause)

\* ------------------------------------------------ root-cause agent: claims

\* The handler has answered.
RootCauseAnswered == invocation.name = "rootcause" /\ invocation.statusCode # 0

\* The entries of the investigation log of one type.
LogEntries(type) ==
    SelectSeq(rootcause.investigation_log, LAMBDA entry : entry.type = type)

\* C21: whatever the reasoner does on each call, investigate makes at most
\* max_iterations (5) think/act iterations and at most 5 tool calls, the
\* handler answers in the end, and its result carries a confidence and an
\* evidence list.
C21_BoundedInvestigation ==
    /\ [](/\ rootcause.iteration <= max_iterations
          /\ Len(LogEntries("thought")) <= max_iterations
          /\ Len(LogEntries("action")) <= max_iterations
          /\ Len(rootcause.invoked) <= max_iterations
          /\ RootCauseAnswered
                => /\ {"confidence", "evidence"} \subseteq DOMAIN invocation.result
                   /\ Len(invocation.result.evidence) >= 0)
    /\ <>RootCauseAnswered

\* The reasoner gave no usable answer five times and none for the report:
\* five check_service_health calls, then the fallback report.
C21_Witness ==
    /\ RootCauseAnswered
    /\ invocation.statusCode = 200
    /\ rootcause.iteration = max_iterations
    /\ rootcause.invoked = [i \in 1..max_iterations |-> "check_service_health"]
    /\ invocation.result.investigation_steps = 3 * max_iterations
    /\ invocation.result.report = FallbackReport

\* The loop ended at the iteration bound with no 'conclude' action.
Exhausted ==
    /\ rootcause.pc = "returned"
    /\ rootcause.iteration = max_iterations
    /\ ~rootcause.conclusion_reached

\* C22: when the loop reaches the iteration bound without a 'conclude'
\* action, the returned report has confidence 'low'.
C22_ExhaustionIsLowConfidence ==
    (RootCauseAnswered /\ Exhausted)
        => /\ invocation.result.confidence = "low"
           /\ invocation.result.report.confidence = "low"

\* ------------------------------------------- _decide_action on its own

\* The pieces of the response texts, and every text of at most
\* MaxResponseLen pieces.
ResponsePieces ==
    {Open, Close, Prose, Members(ConcludeAction),
     Members(ToolAction("get_cpu_metrics"))}
ResponseTexts == SeqsUpTo(ResponsePieces, MaxResponseLen)

\* _decide_action (lines 158-159) on the reasoner's answer: the action it
\* returns, as investigate appends it to the log (line 60).
DecideAction ==
    /\ rootcause.investigation_log = <<>>
    /\ rootcause' =
          [rootcause EXCEPT !.investigation_log =
              <<[type |-> "action", content |-> decide_action(bedrock)]>>]
    /\ UNCHANGED <<now, approvals, incidents, executorVars, processorVars,
                   faults, agent, verifier, breakerVars, bedrock, invocation,
                   agent_state_table, escalations_table>>

\* The reasoner has failed or answered a decide-action request.
InitDecideAction ==
    /\ now = 0
    /\ approvals = NoItems
    /\ incidents = [i \in IncidentIds |-> NewIncident]
    /\ remediation_log = <<>>
    /\ notifications = <<>>
    /\ triggered = <<>>
    /\ inv = [n \in Invocations |-> IdleInvocation]
    /\ pc = "idle"
    /\ event = NoEvent
    /\ results = NoResult
    /\ executed = <<>>
    /\ faults = {}
    /\ agent = IdleAgent
    /\ verifier = IdleVerifier
    /\ circuit_breaker_table = NoItems
    /\ calls = [c \in Callers |-> IdleCall]
    /\ consecutive = [s \in Services |-> 0]
    /\ bedrock \in {Raises} \cup {Answers(text) : text \in ResponseTexts}
    /\ invocation = NoInvocation
    /\ rootcause = IdleInvestigation
    /\ agent_state_table = NoItems
    /\ escalations_table = NoItems

NextDecideAction == DecideAction

SpecDecideAction == InitDecideAction /\ [][NextDecideAction]_vars

\* The action _decide_action returned.
Decided == rootcause.investigation_log # <<>>
DecidedAction == rootcause.investigation_log[1].content

\* The JSON objects a text holds: the pieces from some '{' to some '}' that
\* json.loads accepts.
ObjectsIn(text) ==
    {json_loads(SubSeq(text, i, j)) :
        <<i, j>> \in {ij \in (DOMAIN text) \X (DOMAIN text) :
                        /\ ij[1] < ij[2]
                        /\ ~json_raises(SubSeq(text, ij[1], ij[2]))}}

\* C23: when the reasoner's answer to a decide-action request holds no JSON
\* object (the call failed, or no stretch of the text parses as one), the
\* action is the default {type: check_service_health, parameters: {}}; and a
\* 'conclude' action, which alone ends the loop early, only comes from an
\* answer that holds a JSON object saying so.
C23_MalformedGivesDefault ==
    Decided
        => /\ (bedrock.raised \/ ObjectsIn(bedrock.text) = {})
                => DecidedAction = ToolAction("check_service_health")
           /\ Get(DecidedAction, "type", None) = "conclude"
                => /\ ~bedrock.raised
                   /\ \E d \in ObjectsIn(bedrock.text) :
                         Get(d, "type", None) = "conclude"

\* A 'conclude' object with its braces the wrong way round is answered with
\* the default action.
C23_Witness ==
    /\ Decided
    /\ ~bedrock.raised
    /\ bedrock.text = <<Close, Members(ConcludeAction), Open>>
    /\ DecidedAction = ToolAction("check_service_health")

\* The tool_result observations of one tool in the log, in order.
Readings(tool) ==
    SelectSeq(rootcause.investigation_log,
              LAMBDA entry : /\ entry.type = "observation"
                             /\ entry.content.type = "tool_result"
                             /\ entry.content.tool = tool)

\* C24: the investigation context holds at most one entry per tool: after any
\* number of iterations gathered_data has an entry for exactly the tools with
\* a tool_result observation, and the entry is the data of the tool's most
\* recent such observation (so an observation overwrites its own tool's entry
\* and leaves the entries of the other tools as they are).
C24_LastReadingPerTool ==
    /\ DOMAIN rootcause.gathered_data \subseteq InvestigationTools
    /\ \A tool \in InvestigationTools :
          IF Readings(tool) = <<>>
          THEN tool \notin DOMAIN rootcause.gathered_data
          ELSE /\ tool \in DOMAIN rootcause.gathered_data
               /\ rootcause.gathered_data[tool] =
                     Readings(tool)[Len(Readings(tool))].content.data

\* Two readings of get_cpu_metrics around one of check_service_health: the
\* second CPU reading replaced the first, the health reading stayed.
C24_Witness ==
    /\ Len(Readings("get_cpu_metrics")) = 2
    /\ Readings("get_cpu_metrics")[1].content.data = 1
    /\ Readings("get_cpu_metrics")[2].content.data = 2
    /\ Len(Readings("check_service_health")) = 1
    /\ rootcause.invoked =
          <<"get_cpu_metrics", "check_service_health", "get_cpu_metrics">>
    /\ rootcause.gathered_data["get_cpu_metrics"] = 2
    /\ rootcause.gathered_data["check_service_health"] = 1

\* ------------------------------- remediation agent: the reasoner's answer

\* The reasoner call failed, or its text holds no plan with an action.
NoUsablePlan ==
    \/ bedrock.raised
    \/ \A d \in ObjectsIn(bedrock.text) : AllActions(d) = <<>>

\* C25: when the reasoner call fails or its text holds no usable plan,
\* remediate falls back to the manual-intervention plan (one high-risk action
\* that is not reversible): the plan is assessed 'high' and queued for
\* approval, no action is executed, and the incident is not marked resolved.
C25_FallsBackToManualPlan ==
    (AgentReturned /\ NoUsablePlan)
        => /\ agent.plan = FallbackPlan
           /\ agent.result.risk_level = "high"
           /\ agent.result.status = "pending_approval"
           /\ \E a \in DOMAIN approvals :
                 /\ approvals[a].status = "pending"
                 /\ Get(approvals[a], "requested_by", None) = "remediation-agent"
           /\ "execution_result" \notin DOMAIN agent.result
           /\ \A i \in DOMAIN incidents : incidents[i].status # "resolved"

\* ------------------------------------------------------------ triage agent

\* The severities and routings the triage prompt asks the reasoner to choose
\* from.
Severities == {"critical", "high", "medium", "low"}
Routings == {"escalate", "investigate", "auto_resolve"}

\* TriageAgent._call_bedrock when converse raises: the assessment whose
\* json.dumps it returns in place of the reasoner's text.
BedrockErrorAssessment ==
    [severity |-> "medium", routing |-> "investigate",
     reasoning |-> "Bedrock API error. Defaulting to safe triage.",
     next_steps |-> <<"Manual review required", "Check Bedrock permissions">>,
     estimated_impact |-> "Unknown - automatic triage failed",
     urgency_score |-> 5]

\* TriageAgent._call_bedrock
triage_call_bedrock(outcome) ==
    IF outcome.raised THEN <<Open, Members(BedrockErrorAssessment), Close>>
    ELSE outcome.text

\* _parse_assessment's fallback.
FallbackAssessment ==
    [severity |-> "medium", routing |-> "investigate",
     reasoning |-> "Error parsing AI response, defaulting to safe triage",
     next_steps |-> <<"Manual review required">>,
     estimated_impact |-> "Unknown", urgency_score |-> 5]

\* _parse_assessment, line 151.
RequiredFields == {"severity", "routing", "reasoning", "next_steps"}

\* TriageAgent._parse_assessment: the JSON object between the first '{' and
\* the last '}' when it has the four required fields (their values are not
\* looked at), and the fallback when there are no braces, json.loads raises
\* or a field is missing.
parse_assessment(assessment_text) ==
    LET start_idx == find(assessment_text, "{")
        end_idx == rfind(assessment_text, "}") + 1
        json_str == Slice(assessment_text, start_idx, end_idx)
    IN IF start_idx = -1 \/ end_idx = 0 THEN FallbackAssessment
       ELSE IF json_raises(json_str) THEN FallbackAssessment
       ELSE IF ~(RequiredFields \subseteq DOMAIN json_loads(json_str))
       THEN FallbackAssessment
       ELSE json_loads(json_str)

\* TriageAgent._update_incident: severity, assigned_to and one timeline event
\* in one update_item; nothing when there is no such incident.
TriageUpdateIncident(table, incident_id, assessment, t) ==
    IF incident_id \notin DOMAIN table THEN table
    ELSE [table EXCEPT ![incident_id] =
            Put(Put([@ EXCEPT !.timeline = Append(@,
                        [timestamp |-> t, event |-> "triage_completed",
                         actor |-> "triage_agent", details |-> assessment])],
                    "severity", assessment.severity),
                "assigned_to", assessment.routing)]

\* TriageAgent._save_state: the item put in ITOps-AgentState.
TriageStateItem(incident_id, assessment, t) ==
    [agent_id |-> <<"triage-agent", incident_id>>, timestamp |-> t,
     incident_id |-> incident_id, agent_type |-> "triage",
     state |-> "completed", assessment |-> assessment,
     ttl |-> t + AgentStateTtl]

\* lambda_handler, lines 244-254: the response to an event without an
\* incident_id or without incident data.
TriageMissingData(incident_id) ==
    [incident_id |-> IF Truthy(incident_id) THEN incident_id ELSE "unknown",
     severity |-> "unknown", routing |-> "escalate",
     reasoning |-> "Missing incident_id or incident data in request",
     next_steps |-> <<"Fix request format">>]

\* triage_incident's return value, lines 48-54.
TriageResult(incident_id, parsed) ==
    [incident_id |-> incident_id, severity |-> parsed.severity,
     routing |-> parsed.routing, reasoning |-> parsed.reasoning,
     next_steps |-> parsed.next_steps]

\* The triage Lambda: lambda_handler and triage_incident.  An event without
\* incident_id or incident data is answered with 400 before anything else;
\* otherwise the reasoner is asked, its assessment parsed, the incident
\* updated and the agent state saved (either write may raise; it is caught
\* and printed), and the parsed assessment is the result.
TriageHandler(e, outcome, incident_error, state_error) ==
    /\ IF MissingInput(e.incident_id, e.incident)
       THEN /\ invocation' =
                 [name |-> "triage", event |-> e, statusCode |-> 400,
                  result |-> TriageMissingData(e.incident_id)]
            /\ UNCHANGED <<bedrock, incidents, agent_state_table, faults>>
       ELSE LET parsed == parse_assessment(triage_call_bedrock(outcome))
            IN /\ bedrock' = outcome
               /\ incidents' =
                     IF incident_error THEN incidents
                     ELSE TriageUpdateIncident(incidents, e.incident_id,
                                               parsed, now)
               /\ agent_state_table' =
                     IF state_error THEN agent_state_table
                     ELSE Put(agent_state_table,
                              <<"triage-agent", e.incident_id>>,
                              TriageStateItem(e.incident_id, parsed, now))
               /\ faults' = faults
                     \cup (IF incident_error THEN {"triage_incident_update"} ELSE {})
                     \cup (IF state_error THEN {"triage_state_put"} ELSE {})
               /\ invocation' =
                     [name |-> "triage", event |-> e, statusCode |-> 200,
                      result |-> TriageResult(e.incident_id, parsed)]
    /\ UNCHANGED <<now, approvals, executorVars, processorVars, agent,
                   verifier, breakerVars, rootcause, escalations_table>>

\* ------------------------------------------------------ escalation handler

\* EscalationHandler.__init__: escalation_levels, and the level of a severity
\* (3 for one that is not listed).
escalation_levels == [critical |-> 1, high |-> 2, medium |-> 3, low |-> 4]
EscalationLevel(severity) == Get(escalation_levels, severity, 3)

\* The ttl of an escalation record: 30 days, in seconds.
EscalationTtl == 2592000

\* The escalation_id drawn at time t, and the id returned when the put failed.
EscalationId(t) == <<"ESC", t>>
EscalationErrorId(t) == <<"ESC-ERROR", t>>

\* _create_escalation_record: the item put in ITOps-Escalations.
EscalationRecord(incident_id, incident_data, reason, level, t) ==
    [escalation_id |-> EscalationId(t), incident_id |-> incident_id,
     created_at |-> t, severity |-> Get(incident_data, "severity", None),
     escalation_level |-> level,
     reason |-> IF Truthy(reason) THEN reason ELSE "Automatic escalation",
     status |-> "open", incident_title |-> Get(incident_data, "title", None),
     assigned_to |-> None, ttl |-> t + EscalationTtl]

\* EscalationHandler._update_incident_status: status 'escalated', the
\* escalation_id and one timeline event in one update_item; nothing when
\* there is no such incident.
EscalationUpdateIncidentStatus(table, incident_id, escalation_id, t) ==
    IF incident_id \notin DOMAIN table THEN table
    ELSE [table EXCEPT ![incident_id] =
            Put([@ EXCEPT
                    !.status = "escalated",
                    !.timeline = Append(@,
                        [timestamp |-> t, event |-> "incident_escalated",
                         actor |-> "escalation_handler",
                         details |-> escalation_id])],
                "escalation_id", escalation_id)]

\* lambda_handler, lines 432-440.
EscalationMissingData(incident_id) ==
    [incident_id |-> IF Truthy(incident_id) THEN incident_id ELSE "unknown",
     status |-> "error", message |-> "Missing incident_id or incident data"]

\* The escalation Lambda: lambda_handler and escalate.  An event without
\* incident_id or incident data is answered with 400 before anything else;
\* otherwise the escalation record is put (a failure is caught and gives an
\* ESC-ERROR id), the notifications are printed, the incident is updated (a
\* failure is caught and printed) and the summary says 'escalated'.
EscalationHandler(e, put_error, incident_error) ==
    /\ IF MissingInput(e.incident_id, e.incident)
       THEN /\ invocation' =
                 [name |-> "escalate", event |-> e, statusCode |-> 400,
                  result |-> EscalationMissingData(e.incident_id)]
            /\ UNCHANGED <<incidents, escalations_table, faults>>
       ELSE LET severity == Get(e.incident, "severity", "medium")
                escalation_level == EscalationLevel(severity)
                escalation_id == IF put_error THEN EscalationErrorId(now)
                                 ELSE EscalationId(now)
            IN /\ escalations_table' =
                     IF put_error THEN escalations_table
                     ELSE Put(escalations_table, EscalationId(now),
                              EscalationRecord(e.incident_id, e.incident,
                                               None, escalation_level, now))
               /\ incidents' =
                     IF incident_error THEN incidents
                     ELSE EscalationUpdateIncidentStatus(
                              incidents, e.incident_id, escalation_id, now)
               /\ faults' = faults
                     \cup (IF put_error THEN {"escalation_put"} ELSE {})
                     \cup (IF incident_error
                           THEN {"escalation_incident_update"} ELSE {})
               /\ invocation' =
                     [name |-> "escalate", event |-> e, statusCode |-> 200,
                      result |-> [incident_id |-> e.incident_id,
                                  escalation_id |-> escalation_id,
                                  severity |-> severity,
                                  escalation_level |-> escalation_level,
                                  status |-> "escalated"]]
    /\ UNCHANGED <<now, approvals, executorVars, processorVars, agent,
                   verifier, breakerVars, bedrock, rootcause,
                   agent_state_table>>

\* ------------------------------------------- triage and escalation: inputs

\* The events of the triage and escalation handlers: incident_id missing,
\* empty, the id of a stored incident or an unknown id; incident data missing
\* (or empty), or given with the severity the incident was reported with.
HandlerEvents ==
    [incident_id : {None, Empty, "INC-1", "INC-404"},
     incident : {<<>>, IncidentData,
                 [title |-> "title", severity |-> "critical"]}]

\* The assessments the reasoner may word: the values the prompt lists, and
\* one with values of its own.
WordedAssessments ==
    {[severity |-> s, routing |-> r, reasoning |-> "reasoning",
      next_steps |-> <<"step">>] :
        s \in {"critical", "low"}, r \in {"escalate", "investigate"}}
    \cup {[severity |-> "urgent", routing |-> "page_oncall",
           reasoning |-> "reasoning", next_steps |-> <<"step">>]}

\* The reasoner on a triage request: the call fails, or it answers with an
\* assessment inside prose, an assessment without its routing, prose only,
\* or an unclosed object.
TriageOutcomes ==
    {Raises, Answers(<<Prose>>),
     Answers(<<Open, Members([severity |-> "critical",
                              reasoning |-> "reasoning",
                              next_steps |-> <<"step">>]), Close>>),
     Answers(<<Open, Members([severity |-> "critical", routing |-> "escalate",
                              reasoning |-> "reasoning",
                              next_steps |-> <<"step">>])>>)}
    \cup {Answers(<<Prose, Open, Members(a), Close, Prose>>) :
            a \in WordedAssessments}

\* One triage of an incident, and one escalation after it or without it.
InitTriage ==
    /\ InitBreakerRest
    /\ circuit_breaker_table = NoItems
    /\ consecutive = [s \in Services |-> 0]

NextTriage ==
    \/ /\ invocation = NoInvocation
       /\ \E e \in HandlerEvents, o \in TriageOutcomes, ie \in BOOLEAN,
             se \in BOOLEAN : TriageHandler(e, o, ie, se)
    \/ /\ invocation.name # "escalate"
       /\ \E e \in HandlerEvents, pe \in BOOLEAN, ie \in BOOLEAN :
             EscalationHandler(e, pe, ie)
    \/ Tick

SpecTriage == InitTriage /\ [][NextTriage]_vars

\* ----------------------------------------------------------- triage: claims

\* The triage handler has answered an event that has an incident_id and
\* incident data.
Triaged == invocation.name = "triage" /\ invocation.statusCode = 200

\* The reasoner's answer to the triage request holds no JSON object.
Unparseable == ~bedrock.raised /\ ObjectsIn(bedrock.text) = {}

\* C26: every triage result has a severity among critical, high, medium, low
\* and a routing among escalate, investigate, auto_resolve, whatever the
\* reasoner answered; and when the reasoner call failed or its answer holds
\* no JSON object, the result is severity medium, routing investigate.
C26_TriageResultInRange ==
    Triaged
        => /\ invocation.result.severity \in Severities
           /\ invocation.result.routing \in Routings
           /\ (bedrock.raised \/ Unparseable)
                => /\ invocation.result.severity = "medium"
                   /\ invocation.result.routing = "investigate"

\* The places of the events of one kind in an incident's timeline.
EventPlaces(i, kind) ==
    {k \in DOMAIN incidents[i].timeline : incidents[i].timeline[k].event = kind}

\* C27: an incident triaged with severity critical gets routing escalate, and
\* an incident whose status is 'escalated' has an incident_escalated event
\* with no root_cause_analysis_completed event before it in its timeline.
C27_CriticalIsEscalated ==
    /\ (Triaged /\ invocation.result.severity = "critical")
          => invocation.result.routing = "escalate"
    /\ \A i \in DOMAIN incidents :
          incidents[i].status = "escalated"
             => \E k \in EventPlaces(i, "incident_escalated") :
                   \A j \in EventPlaces(i, "root_cause_analysis_completed") :
                      k < j

\* ------------------------------------------- the handlers' entry points

\* execute-remediation lambda_handler, lines 431-438.
ExecutorMissingData(incident_id) ==
    [incident_id |-> IF Truthy(incident_id) THEN incident_id ELSE "unknown",
     status |-> "error", message |-> "Missing incident_id or remediation_plan"]

\* verify-resolution lambda_handler, lines 422-428.
VerifierMissingData ==
    [verified |-> FALSE, error |-> "Missing incident_id or incident data"]

\* The executor Lambda up to the first loop of execute: an event without
\* incident_id or remediation_plan is answered with 400 before anything
\* else; otherwise execute begins.
ExecutorHandler(e, store_error) ==
    /\ pc = "idle"
    /\ IF MissingInput(e.incident_id, e.remediation_plan)
       THEN /\ invocation' =
                 [name |-> "execute", event |-> e, statusCode |-> 400,
                  result |-> ExecutorMissingData(e.incident_id)]
            /\ UNCHANGED <<now, approvals, incidents, executorVars,
                           processorVars, faults, agent, verifier,
                           breakerVars, bedrock, rootcause,
                           agent_state_table, escalations_table>>
       ELSE ExecBegin(e.incident_id, e.remediation_plan, e.approval_id,
                      store_error)

\* The verifier Lambda: an event without incident_id or incident data is
\* answered with 400 before anything else; otherwise verify_resolution runs.
VerifierHandler(e, m, l, h, c, store_error) ==
    IF MissingInput(e.incident_id, e.incident)
    THEN /\ invocation' =
              [name |-> "verify", event |-> e, statusCode |-> 400,
               result |-> VerifierMissingData]
         /\ UNCHANGED <<now, approvals, incidents, executorVars,
                        processorVars, faults, agent, verifier, breakerVars,
                        bedrock, rootcause, agent_state_table,
                        escalations_table>>
    ELSE VerifyResolution(e.incident_id, e.remediation_plan, m, l, h, c,
                          store_error)

\* The plans of the executor events here: plans whose actions are all
\* low-risk, reversible and not critical.
EntryPlans ==
    {p \in Plans :
        \A i \in DOMAIN AllActions(p) :
            /\ AllActions(p)[i].risk = "low"
            /\ AllActions(p)[i].reversible
            /\ ~AllActions(p)[i].critical}

\* The events of the executor and of the verifier: incident_id missing, empty
\* or given; the plan or the incident data missing (or empty) or given.
ExecutorEvents ==
    [incident_id : {None, Empty, "INC-1"},
     remediation_plan : {<<>>} \cup EntryPlans,
     approval_id : {None} \cup ApprovalIds]
VerifierEvents ==
    [incident_id : {None, Empty, "INC-1"}, incident : {<<>>, IncidentData},
     remediation_plan : {<<>>, [success_criteria |-> <<"criterion">>]}]

\* The reasoner during the investigation here: it asks for one tool or
\* concludes, and words a report or fails.
EntryDecisions ==
    {Answers(<<Open, Members(ToolAction("get_cpu_metrics")), Close>>),
     Answers(<<Open, Members(ConcludeAction), Close>>)}
EntryReports == {Raises, Answers(<<Open, Members(FallbackReport), Close>>)}

\* One invocation of one of the five handlers, on tables that hold one
\* incident.
InitEntry ==
    /\ InitBreakerRest
    /\ circuit_breaker_table = NoItems
    /\ consecutive = [s \in Services |-> 0]

NoneInvoked ==
    /\ invocation = NoInvocation
    /\ pc = "idle"
    /\ verifier.pc = "idle"
    /\ rootcause.pc = "idle"

NextEntry ==
    \/ /\ NoneInvoked
       /\ \E e \in HandlerEvents, o \in TriageOutcomes, ie \in BOOLEAN,
             se \in BOOLEAN : TriageHandler(e, o, ie, se)
    \/ /\ NoneInvoked
       /\ \E e \in HandlerEvents, pe \in BOOLEAN, ie \in BOOLEAN :
             EscalationHandler(e, pe, ie)
    \/ /\ NoneInvoked
       /\ \E e \in RootCauseEvents : RootCauseBegin(e)
    \/ /\ rootcause.pc = "loop"
       /\ \E o \in EntryDecisions : RootCauseIterate(o, ToolData(1))
    \/ /\ rootcause.pc = "report"
       /\ \E o \in EntryReports, ie \in BOOLEAN, se \in BOOLEAN :
             RootCauseFinish(o, ie, se)
    \/ /\ NoneInvoked
       /\ \E e \in ExecutorEvents, se \in BOOLEAN : ExecutorHandler(e, se)
    \/ \E raised \in BOOLEAN : ExecImmediate(raised)
    \/ \E raised \in BOOLEAN : ExecCorrective(raised)
    \/ \E le \in BOOLEAN, ie \in BOOLEAN : ExecFinish(le, ie)
    \/ /\ NoneInvoked
       /\ \E e \in VerifierEvents, m \in BOOLEAN, l \in BOOLEAN,
             se \in BOOLEAN : VerifierHandler(e, m, l, TRUE, TRUE, se)

SpecEntry == InitEntry /\ [][NextEntry]_vars

\* --------------------------------------------------- entry points: claims

\* The five entry points, and an event of one of them that lacks the
\* incident id, or the incident data (the plan for the executor).
EntryPoints == {"triage", "rootcause", "execute", "verify", "escalate"}
LacksInput(name, e) ==
    \/ ~Truthy(e.incident_id)
    \/ IF name = "execute" THEN DOMAIN e.remediation_plan = {}
       ELSE DOMAIN e.incident = {}

\* The stored records.
Records ==
    <<incidents, approvals, escalations_table, remediation_log,
      agent_state_table>>

\* C28: an event without an incident id, or without incident data (without a
\* plan, for the executor), given to the triage, root-cause, executor,
\* verifier or escalation handler is answered with statusCode 400, and the
\* step that answers it leaves the incident, approval, escalation,
\* execution-log and agent-state records as they were.
C28_MissingInputWritesNothing ==
    /\ []((invocation.name \in EntryPoints
            /\ LacksInput(invocation.name, invocation.event))
              => invocation.statusCode = 400)
    /\ [][(invocation' # invocation
            /\ invocation'.name \in EntryPoints
            /\ LacksInput(invocation'.name, invocation'.event))
              => /\ invocation'.statusCode = 400
                 /\ Records' = Records
                 /\ pc' = pc /\ verifier' = verifier /\ rootcause' = rootcause
                 /\ executed' = executed]_vars

\* The executor was given a stored incident's id and no plan.
C28_Witness ==
    /\ invocation.name = "execute"
    /\ invocation.event.incident_id = "INC-1"
    /\ invocation.event.remediation_plan = <<>>
    /\ invocation.statusCode = 400
    /\ pc = "idle"
    /\ remediation_log = <<>>
    /\ incidents["INC-1"] = NewIncident

\* ------------------------------------------- API handler: PUT /incidents

\* `SET #key = :key` for every key of the updates: the item with these
\* attributes set.
SetAttrs(item, updates) ==
    [k \in DOMAIN item \cup DOMAIN updates |->
        IF k \in DOMAIN updates THEN updates[k] ELSE item[k]]

\* The dict without some keys.
Without(d, keys) == [k \in DOMAIN d \ keys |-> d[k]]

\* The API handler's update_incident, inside lambda_handler's try: 404 when
\* there is no such incident, 400 when the body has no key besides
\* incident_id and created_at, else one update_item that sets every other
\* key of the body ('status' and 'timeline' included) and appends nothing;
\* 500 when the query or the update raises.
ApiUpdateIncident(incident_id, data, store_error) ==
    /\ LET e == [incident_id |-> incident_id, body |-> data]
           fields == Without(data, {"incident_id", "created_at"})
       IN IF store_error
          THEN /\ invocation' = [name |-> "api_update_incident", event |-> e,
                                 statusCode |-> 500, result |-> <<>>]
               /\ UNCHANGED incidents
          ELSE IF incident_id \notin DOMAIN incidents
          THEN /\ invocation' = [name |-> "api_update_incident", event |-> e,
                                 statusCode |-> 404, result |-> <<>>]
               /\ UNCHANGED incidents
          ELSE IF DOMAIN fields = {}
          THEN /\ invocation' = [name |-> "api_update_incident", event |-> e,
                                 statusCode |-> 400, result |-> <<>>]
               /\ UNCHANGED incidents
          ELSE /\ invocation' = [name |-> "api_update_incident", event |-> e,
                                 statusCode |-> 200, result |-> <<>>]
               /\ incidents' = [incidents EXCEPT ![incident_id] =
                                    SetAttrs(@, fields)]
    /\ faults' = IF store_error THEN faults \cup {"api_incident_update"}
                 ELSE faults
    /\ UNCHANGED <<now, approvals, executorVars, processorVars, agent,
                   verifier, breakerVars, bedrock, rootcause,
                   agent_state_table, escalations_table>>

\* ------------------------------------------- MCP incident tools: update

\* IncidentTools.update_incident for updates with a key besides incident_id,
\* created_at and timeline: those keys are set and one incident_updated event
\* is appended, in one update_item; {'error'} and nothing written when there
\* is no such incident or a table operation raises.
McpUpdateIncident(incident_id, updates, updated_by, store_error) ==
    /\ DOMAIN Without(updates, {"incident_id", "created_at", "timeline"}) # {}
    /\ LET e == [incident_id |-> incident_id, updates |-> updates,
                 updated_by |-> updated_by]
           fields == Without(updates, {"incident_id", "created_at", "timeline"})
       IN IF store_error \/ incident_id \notin DOMAIN incidents
          THEN /\ invocation' = [name |-> "mcp_update_incident", event |-> e,
                                 statusCode |-> 0, result |-> [error |-> TRUE]]
               /\ UNCHANGED incidents
          ELSE /\ invocation' = [name |-> "mcp_update_incident", event |-> e,
                                 statusCode |-> 0,
                                 result |-> [success |-> TRUE,
                                             incident_id |-> incident_id]]
               /\ incidents' = [incidents EXCEPT ![incident_id] =
                    [SetAttrs(@, fields) EXCEPT !.timeline = Append(@,
                        [timestamp |-> now, event |-> "incident_updated",
                         actor |-> updated_by,
                         details |-> DOMAIN updates])]]
    /\ faults' = IF store_error THEN faults \cup {"mcp_incident_update"}
                 ELSE faults
    /\ UNCHANGED <<now, approvals, executorVars, processorVars, agent,
                   verifier, breakerVars, bedrock, rootcause,
                   agent_state_table, escalations_table>>

\* ---------------------------------------------------- notification sender

\* notification-sender lambda_handler: the message is printed, and when the
\* event has an incident_id and the incident exists one notification_<type>
\* event is appended to its timeline; 500 when the query or update raises.
NotificationSender(e, store_error) ==
    /\ IF Truthy(e.incident_id) /\ store_error
       THEN /\ invocation' = [name |-> "notify", event |-> e,
                              statusCode |-> 500, result |-> <<>>]
            /\ UNCHANGED incidents
       ELSE /\ invocation' = [name |-> "notify", event |-> e,
                              statusCode |-> 200, result |-> <<>>]
            /\ incidents' =
                  IF Truthy(e.incident_id) /\ e.incident_id \in DOMAIN incidents
                  THEN [incidents EXCEPT ![e.incident_id].timeline = Append(@,
                          [timestamp |-> now,
                           event |-> "notification_" \o e.type,
                           actor |-> "system", details |-> e.type])]
                  ELSE incidents
    /\ faults' = IF Truthy(e.incident_id) /\ store_error
                 THEN faults \cup {"notification_incident_update"} ELSE faults
    /\ UNCHANGED <<now, approvals, executorVars, processorVars, agent,
                   verifier, breakerVars, bedrock, rootcause,
                   agent_state_table, escalations_table>>

\* -------------------------------------------------------- workflow trigger

\* The incident id _create_incident draws at time t when the data has none.
GeneratedIncidentId(t) == "INC-" \o ToString(t)

\* WorkflowTrigger._create_incident: the item put under the key
\* (incident_id, created_at = now).
CreatedIncident(incident_data, t) ==
    [created_at |-> t, title |-> Get(incident_data, "title", "Untitled Incident"),
     severity |-> Get(incident_data, "severity", "medium"), status |-> "open",
     timeline |-> <<>>]

\* The table's key is incident_id and created_at, and every reader takes the
\* first item a query by incident_id returns, the one with the least
\* created_at: that item is held under the incident_id, and an item of the
\* same incident_id with a later created_at under this key.
LaterItemKey(incident_id, t) == incident_id \o "@" \o ToString(t)

\* The incident table after _create_incident's put: the put replaces the
\* stored item of the id when that was created in the same second, and
\* otherwise adds a second item of the id, which no reader sees.
CreateIncident(table, incident_id, incident_data, t) ==
    IF incident_id \in DOMAIN table /\ table[incident_id].created_at # t
    THEN Put(table, LaterItemKey(incident_id, t),
             CreatedIncident(incident_data, t))
    ELSE Put(table, incident_id, CreatedIncident(incident_data, t))

\* WorkflowTrigger._update_incident_workflow: the execution's arn and start
\* time and one workflow_started event in one update_item; nothing when there
\* is no such incident.
UpdateIncidentWorkflow(table, incident_id, t) ==
    IF incident_id \notin DOMAIN table THEN table
    ELSE [table EXCEPT ![incident_id] =
            SetAttrs([@ EXCEPT !.timeline = Append(@,
                        [timestamp |-> t, event |-> "workflow_started",
                         actor |-> "workflow_trigger",
                         details |-> <<incident_id, t>>])],
                     [workflow_execution_arn |-> <<incident_id, t>>,
                      workflow_started_at |-> t])]

\* The trigger Lambda on action 'trigger': lambda_handler and
\* trigger_workflow.  With an id and no data the incident is read (400 when
\* it is not found or the query raises); with data and no id the incident is
\* created (a raised put is answered with 500); with neither, 400.  Then the
\* execution is started (400 when that raises) and the incident is updated
\* (a raised update is caught and printed).
TriggerWorkflow(e, get_error, put_error, start_error, update_error) ==
    /\ LET has_id == Truthy(e.incident_id)
           has_data == DOMAIN e.incident # {}
           create == ~has_id /\ has_data
           incident_id ==
               IF has_id THEN e.incident_id
               ELSE IF Truthy(Get(e.incident, "incident_id", None))
               THEN e.incident.incident_id
               ELSE GeneratedIncidentId(now)
           created ==
               IF create /\ ~put_error
               THEN CreateIncident(incidents, incident_id, e.incident, now)
               ELSE incidents
           answer(code) == [name |-> "trigger", event |-> e,
                            statusCode |-> code, result |-> <<>>]
       IN IF ~has_id /\ ~has_data
          THEN /\ invocation' = answer(400)
               /\ UNCHANGED <<incidents, faults>>
          ELSE IF has_id /\ ~has_data
                  /\ (get_error \/ incident_id \notin DOMAIN incidents)
          THEN /\ invocation' = answer(400)
               /\ incidents' = incidents
               /\ faults' = IF get_error THEN faults \cup {"trigger_query"}
                            ELSE faults
          ELSE IF create /\ put_error
          THEN /\ invocation' = answer(500)
               /\ incidents' = incidents
               /\ faults' = faults \cup {"trigger_put"}
          ELSE IF start_error
          THEN /\ invocation' = answer(400)
               /\ incidents' = created
               /\ faults' = faults \cup {"trigger_start"}
          ELSE /\ invocation' =
                    [answer(200) EXCEPT !.result = [incident_id |-> incident_id]]
               /\ incidents' =
                    IF update_error THEN created
                    ELSE UpdateIncidentWorkflow(created, incident_id, now)
               /\ faults' = IF update_error
                            THEN faults \cup {"trigger_incident_update"}
                            ELSE faults
    /\ UNCHANGED <<now, approvals, executorVars, processorVars, agent,
                   verifier, breakerVars, bedrock, rootcause,
                   agent_state_table, escalations_table>>

\* -------------------------------------------- the operations on an incident

\* Most events in the timeline of the incident an operation is applied to.
MaxEvents == 2

\* One timeline event of the notification sender, and the timelines some
\* notifications sent up to time t leave, oldest first.
NotificationEntry(type, t) ==
    [timestamp |-> t, event |-> "notification_" \o type, actor |-> "system",
     details |-> type]
StoredTimelines(t) ==
    {tl \in SeqsUpTo({NotificationEntry("update", u) : u \in 0..t}, MaxEvents) :
        \A j, k \in DOMAIN tl : j <= k => tl[j].timestamp <= tl[k].timestamp}

\* The stored incident: created at time 0, notified of some times since, and
\* with its status as created or as an update left it.
StoredIncidents(t) ==
    {SetAttrs(NewIncident, [created_at |-> 0, status |-> st, timeline |-> tl]) :
        st \in {"open", "in_progress", "escalated"}, tl \in StoredTimelines(t)}

\* The events and bodies of the operations: the stored incident's id with
\* incident data; a notification with or without an id; the bodies of PUT
\* /incidents/{id}; the updates of the MCP tool; the trigger's events.
IncidentEvent == [incident_id |-> "INC-1", incident |-> IncidentData]
NotificationEvents ==
    [incident_id : {None, "INC-1"}, type : {"update", "resolved"}]
ApiBodies ==
    {<<>>, [incident_id |-> "INC-2"], [status |-> "resolved"],
     [timeline |-> <<>>], [severity |-> "low"]}
McpUpdates ==
    {[status |-> "investigating"], [severity |-> "low"],
     [status |-> "resolved", timeline |-> <<>>]}
TriggerEvents ==
    [incident_id : {None, "INC-1"},
     incident : {<<>>, IncidentData,
                 [incident_id |-> "INC-1", title |-> "title"]}]

\* One operation on a stored incident that has a pending approval.
InitIncident ==
    /\ now \in 0..MaxTime
    /\ approvals = [a \in ApprovalIds |-> PendingItem("INC-1")]
    /\ incidents \in [IncidentIds -> StoredIncidents(now)]
    /\ remediation_log = <<>>
    /\ notifications = <<>>
    /\ triggered = <<>>
    /\ inv = [n \in Invocations |-> IdleInvocation]
    /\ pc = "idle"
    /\ event = NoEvent
    /\ results = NoResult
    /\ executed = <<>>
    /\ faults = {}
    /\ agent = IdleAgent
    /\ verifier = IdleVerifier
    /\ circuit_breaker_table = NoItems
    /\ calls = [c \in Callers |-> IdleCall]
    /\ consecutive = [s \in Services |-> 0]
    /\ InitEngine

\* No operation was started yet.
Fresh ==
    /\ NoneInvoked
    /\ \A n \in Invocations : inv[n].pc = "idle"

NextIncident ==
    \/ /\ Fresh
       /\ \E o \in TriageOutcomes, ie \in BOOLEAN, se \in BOOLEAN :
             TriageHandler(IncidentEvent, o, ie, se)
    \/ /\ Fresh
       /\ RootCauseBegin(IncidentEvent)
    \/ /\ rootcause.pc = "loop"
       /\ \E o \in EntryDecisions : RootCauseIterate(o, ToolData(1))
    \/ /\ rootcause.pc = "report"
       /\ \E o \in EntryReports, ie \in BOOLEAN, se \in BOOLEAN :
             RootCauseFinish(o, ie, se)
    \/ /\ Fresh
       /\ \E n \in Invocations, d \in {"approve", "reject"}, se \in BOOLEAN :
             PACall(n, "APPR-1", d, ApproverOf(n), None, se)
    \/ \E n \in Invocations, se \in BOOLEAN : PAUpdate(n, se)
    \/ \E n \in Invocations, ie \in BOOLEAN : PAFinish(n, ie)
    \/ /\ Fresh
       /\ \E p \in EntryPlans, se \in BOOLEAN :
             ExecutorHandler([incident_id |-> "INC-1", remediation_plan |-> p,
                              approval_id |-> None], se)
    \/ \E raised \in BOOLEAN : ExecImmediate(raised)
    \/ \E raised \in BOOLEAN : ExecCorrective(raised)
    \/ \E le \in BOOLEAN, ie \in BOOLEAN : ExecFinish(le, ie)
    \/ /\ Fresh
       /\ \E rp \in {<<>>, [success_criteria |-> <<"criterion">>]},
             m \in BOOLEAN, l \in BOOLEAN, se \in BOOLEAN :
                VerifierHandler([incident_id |-> "INC-1",
                                 incident |-> IncidentData,
                                 remediation_plan |-> rp], m, l, TRUE, TRUE, se)
    \/ /\ Fresh
       /\ \E pe \in BOOLEAN, ie \in BOOLEAN :
             EscalationHandler(IncidentEvent, pe, ie)
    \/ /\ Fresh
       /\ \E e \in NotificationEvents, se \in BOOLEAN : NotificationSender(e, se)
    \/ /\ Fresh
       /\ \E i \in IncidentIds \cup {"INC-404"}, b \in ApiBodies, se \in BOOLEAN :
             ApiUpdateIncident(i, b, se)
    \/ /\ Fresh
       /\ \E u \in McpUpdates, se \in BOOLEAN :
             McpUpdateIncident("INC-1", u, "operator", se)
    \/ /\ Fresh
       /\ \E e \in TriggerEvents, ge \in BOOLEAN, pe \in BOOLEAN,
             se \in BOOLEAN, ue \in BOOLEAN : TriggerWorkflow(e, ge, pe, se, ue)
    \/ Tick

SpecIncident == InitIncident /\ [][NextIncident]_vars

\* ------------------------------------------------ incident store: claims

\* The timestamps of a timeline never go down; two events are the same; one
\* timeline begins with another.
Ordered(tl) ==
    \A j, k \in DOMAIN tl : j <= k => tl[j].timestamp <= tl[k].timestamp
SameEvent(a, b) ==
    /\ a.event = b.event
    /\ a.actor = b.actor
    /\ a.timestamp = b.timestamp
    /\ a.details = b.details
IsPrefix(a, b) ==
    /\ Len(a) <= Len(b)
    /\ \A k \in DOMAIN a : SameEvent(a[k], b[k])

\* C29: an incident's timeline is append-only: whichever operation is applied
\* to a stored incident (triage, investigation, approval decision, execution,
\* verification, escalation, notification, API update, MCP update, workflow
\* trigger), every step leaves the timeline it found as a prefix of the
\* timeline it leaves, and the timestamps of a timeline never go down.
C29_TimelineAppendOnly ==
    /\ [](\A i \in DOMAIN incidents : Ordered(incidents[i].timeline))
    /\ [][\A i \in DOMAIN incidents :
            /\ i \in DOMAIN incidents'
            /\ IsPrefix(incidents[i].timeline, incidents'[i].timeline)]_vars

\* C30: a step that changes an incident's status appends exactly one event
\* to its timeline, and the event has an actor and details.
C30_StatusChangeAppendsOneEvent ==
    [][\A i \in DOMAIN incidents \cap DOMAIN incidents' :
          incidents'[i].status # incidents[i].status
             => /\ Len(incidents'[i].timeline) = Len(incidents[i].timeline) + 1
                /\ IsPrefix(incidents[i].timeline, incidents'[i].timeline)
                /\ {"actor", "details"} \subseteq
                      DOMAIN incidents'[i].timeline[Len(incidents'[i].timeline)]]_vars

\* ------------------------------------------------------- incident creation

\* The incident ids IncidentTools.create_incident draws (uuid4).
DrawnIncidentIds == {"INC-A", "INC-B"}

\* IncidentTools.create_incident: the item put, with its incident_created
\* event.
McpCreatedIncident(params, t) ==
    [created_at |-> t, title |-> params.title,
     severity |-> Get(params, "severity", "medium"), status |-> "open",
     assigned_to |-> Get(params, "assigned_to", "unassigned"),
     timeline |-> <<[timestamp |-> t, event |-> "incident_created",
                     actor |-> Get(params, "detected_by", "system"),
                     details |-> "Incident created in system"]>>]

\* IncidentTools.create_incident: an incident under a drawn id, whatever the
\* request carries; {'error'} and nothing written when the request lacks its
\* title or the put raises.
McpCreateIncident(params, incident_id, put_error) ==
    /\ IF "title" \notin DOMAIN params \/ put_error
       THEN /\ invocation' = [name |-> "mcp_create_incident", event |-> params,
                              statusCode |-> 0, result |-> [error |-> TRUE]]
            /\ UNCHANGED incidents
       ELSE /\ invocation' = [name |-> "mcp_create_incident", event |-> params,
                              statusCode |-> 0,
                              result |-> [success |-> TRUE,
                                          incident_id |-> incident_id]]
            /\ incidents' = Put(incidents, incident_id,
                                McpCreatedIncident(params, now))
    /\ faults' = IF put_error THEN faults \cup {"mcp_incident_put"} ELSE faults
    /\ UNCHANGED <<now, approvals, executorVars, processorVars, agent,
                   verifier, breakerVars, bedrock, rootcause,
                   agent_state_table, escalations_table>>

\* The creation requests: the trigger's events without incident_id whose
\* incident data names the incident, and the MCP tool's parameters.
CreationEvents ==
    [incident_id : {None},
     incident : {[incident_id |-> "INC-1", title |-> "title"],
                 [incident_id |-> "INC-2", title |-> "title"]}]
CreationParams == {[title |-> "title"], [severity |-> "high"]}

\* Creation requests arriving at an empty store, while no timeline has
\* MaxEvents events.
InitCreate ==
    /\ now = 0
    /\ approvals = NoItems
    /\ incidents = NoItems
    /\ remediation_log = <<>>
    /\ notifications = <<>>
    /\ triggered = <<>>
    /\ inv = [n \in Invocations |-> IdleInvocation]
    /\ pc = "idle"
    /\ event = NoEvent
    /\ results = NoResult
    /\ executed = <<>>
    /\ faults = {}
    /\ agent = IdleAgent
    /\ verifier = IdleVerifier
    /\ circuit_breaker_table = NoItems
    /\ calls = [c \in Callers |-> IdleCall]
    /\ consecutive = [s \in Services |-> 0]
    /\ InitEngine

\* No stored timeline has MaxEvents events yet.
CreateRoom ==
    \A i \in DOMAIN incidents : Len(incidents[i].timeline) < MaxEvents

NextCreate ==
    \/ /\ CreateRoom
       /\ \E e \in CreationEvents, pe \in BOOLEAN, se \in BOOLEAN,
             ue \in BOOLEAN : TriggerWorkflow(e, FALSE, pe, se, ue)
    \/ /\ CreateRoom
       /\ \E p \in CreationParams, pe \in BOOLEAN :
             \E i \in DrawnIncidentIds \ DOMAIN incidents :
                McpCreateIncident(p, i, pe)
    \/ Tick

SpecCreate == InitCreate /\ [][NextCreate]_vars

\* ----------------------------------------------- incident creation: claims

\* The trigger has answered a creation request for an incident id with
\* success, and the next step is its answer to the same request again.
SameCreationAgain ==
    /\ invocation.name = "trigger"
    /\ invocation.statusCode = 200
    /\ invocation'.name = "trigger"
    /\ invocation'.event = invocation.event
    /\ incidents' # incidents

\* C31: incident creation is idempotent on the identifier: the answer to a
\* creation request that was answered before adds no incident record, and
\* leaves the status of every stored incident as it was and its timeline a
\* prefix of what it becomes.
C31_CreationIsIdempotent ==
    [][SameCreationAgain
          => /\ DOMAIN incidents' = DOMAIN incidents
             /\ \A i \in DOMAIN incidents :
                   /\ incidents'[i].status = incidents[i].status
                   /\ IsPrefix(incidents[i].timeline, incidents'[i].timeline)]_vars

\* -------------------------------------------------------- approval expiry

\* The approval's stored expiry has passed.
Expired(item, t) == t > item.ttl

\* The expiry time passes: a day and a second.
DayPasses ==
    /\ now <= MaxTime
    /\ now' = now + ApprovalTtl + 1
    /\ UNCHANGED <<agent, verifier, engineVars, breakerVars>>
    /\ UNCHANGED <<approvals, incidents, remediation_log, notifications,
                   triggered, inv, pc, event, results, executed, faults>>

\* The plans of the queued approval: one immediate and one corrective
\* action, which the safety check lets pass.
ExpiryPlans ==
    {p \in EntryPlans :
        Len(p.immediate_actions) = 1 /\ Len(p.corrective_actions) = 1}

\* The approval _queue_for_approval put at time 0 for a high-risk plan, the
\* decisions on it through process_approval, and the executor called with
\* its id, while the clock runs past the approval's expiry.
InitExpiry ==
    /\ now = 0
    /\ approvals \in [ApprovalIds -> {QueuedItem("INC-1", p, "high", 0) :
                                         p \in ExpiryPlans}]
    /\ incidents = [i \in IncidentIds |-> NewIncident]
    /\ remediation_log = <<>>
    /\ notifications = <<>>
    /\ triggered = <<>>
    /\ inv = [n \in Invocations |-> IdleInvocation]
    /\ pc = "idle"
    /\ event = NoEvent
    /\ results = NoResult
    /\ executed = <<>>
    /\ faults = {}
    /\ agent = IdleAgent
    /\ verifier = IdleVerifier
    /\ circuit_breaker_table = NoItems
    /\ calls = [c \in Callers |-> IdleCall]
    /\ consecutive = [s \in Services |-> 0]
    /\ InitEngine

NextExpiry ==
    \/ \E n \in Invocations :
          /\ inv[n].pc = "idle"
          /\ \E d \in {"approve", "reject"}, e \in BOOLEAN :
                PACall(n, "APPR-1", d, ApproverOf(n), None, e)
    \/ \E n \in Invocations, e \in BOOLEAN : PAUpdate(n, e)
    \/ \E n \in Invocations, e \in BOOLEAN : PAFinish(n, e)
    \/ \E se \in BOOLEAN :
          ExecBegin("INC-1", approvals["APPR-1"].plan, "APPR-1", se)
    \/ \E raised \in BOOLEAN : ExecImmediate(raised)
    \/ \E raised \in BOOLEAN : ExecCorrective(raised)
    \/ \E le \in BOOLEAN, ie \in BOOLEAN : ExecFinish(le, ie)
    \/ Tick
    \/ DayPasses

SpecExpiry == InitExpiry /\ [][NextExpiry]_vars

\* ------------------------------------------------ approval expiry: claims

\* C32: an expired approval is terminal: once the time is past an approval's
\* stored expiry no step changes its status, and an execute call made with
\* its id is blocked, so that no action of its plan is executed.
C32_ExpiredIsTerminal ==
    [][\A a \in DOMAIN approvals :
          Expired(approvals[a], now)
             => /\ approvals'[a].status = approvals[a].status
                /\ (pc = "idle" /\ pc' # "idle" /\ event'.approval_id = a)
                      => results'.status = "blocked"]_vars

\* ------------------------------------------- remediation executor: records

\* C33: every execute call on an existing incident, whatever its outcome,
\* leaves exactly one timeline event and one execution-log entry: once the
\* call has returned, and no table operation raised, the incident's timeline
\* and the execution log hold one entry each.
C33_OneEventOneLogEntry ==
    (/\ pc = "returned"
     /\ event.incident_id \in DOMAIN incidents
     /\ faults = {})
        => /\ Len(incidents[event.incident_id].timeline) = 1
           /\ Len(remediation_log) = 1

\* --------------------------------------------------------- terminal status

\* C34: once an incident's status is 'resolved' or 'escalated', no step of
\* the executor, the remediation agent or the verifier changes it.
C34_TerminalStatusKept ==
    [][(pc' # pc \/ agent' # agent \/ verifier' # verifier)
          => \A i \in DOMAIN incidents :
                incidents[i].status \in {"resolved", "escalated"}
                   => incidents'[i].status = incidents[i].status]_vars

\* ------------------------------------------------------ monitoring gateway

\* The tools the ITOps-MCP-Monitoring handler executes.
GatewayTools == {"get_cpu_metrics", "get_error_logs", "check_service_health"}

\* What get_error_logs and get_cpu_metrics return when the query succeeded,
\* with the numbers check_service_health reads.
LogsReading(event_count) == [pattern |-> "ERROR", event_count |-> event_count]
MetricsReading(avg, max) ==
    [metric |-> "Duration", summary |-> [avg |-> avg, max |-> max, count |-> 1]]

\* The event counts and durations of the readings: on either side of the
\* thresholds of check_service_health.
EventCounts == {0, 6, 11}
AvgDurations == {0, 5001}
MaxDurations == {0, 10001}

\* MCPTools.check_service_health, from the results of its two queries: the
\* numbers are read with defaults of 0, the status starts as 'healthy' and is
\* lowered by the error count and the durations.
check_service_health(error_logs, cpu_metrics) ==
    LET error_count == Get(error_logs, "event_count", 0)
        avg_duration == Get(Get(cpu_metrics, "summary", <<>>), "avg", 0)
        max_duration == Get(Get(cpu_metrics, "summary", <<>>), "max", 0)
        by_errors == IF error_count > 10 THEN "unhealthy"
                     ELSE IF error_count > 5 THEN "degraded" ELSE "healthy"
        by_duration == IF avg_duration > 5000 \/ max_duration > 10000
                       THEN "degraded" ELSE "healthy"
    IN [health_status |-> IF by_errors = "healthy" THEN by_duration
                          ELSE by_errors,
        metrics |-> [error_count |-> error_count,
                     avg_duration_ms |-> avg_duration,
                     max_duration_ms |-> max_duration],
        issues |-> (IF error_count > 10 THEN <<"High error rate">>
                    ELSE IF error_count > 5 THEN <<"Elevated error rate">>
                    ELSE <<>>)
                   \o (IF avg_duration > 5000 THEN <<"High average latency">>
                       ELSE <<>>)
                   \o (IF max_duration > 10000 THEN <<"Peak latency spike">>
                       ELSE <<>>)]

\* What a call of a monitoring tool returns: the breaker was open, the query
\* raised, or a reading; for check_service_health, what it makes of its two
\* queries.
QueryResults(tool) ==
    {CircuitOpenResult(tool), ErrorResult}
    \cup (IF tool = "get_cpu_metrics"
          THEN {MetricsReading(a, m) : a \in AvgDurations, m \in MaxDurations}
          ELSE {LogsReading(n) : n \in EventCounts})
ToolResults(tool) ==
    IF tool = "check_service_health"
    THEN {check_service_health(l, m) :
            l \in QueryResults("get_error_logs"),
            m \in QueryResults("get_cpu_metrics")}
    ELSE QueryResults(tool)

\* lambda_handler of ITOps-MCP-Monitoring on action 'execute': the result of
\* the tool with statusCode 200, whatever the result is, and statusCode 400
\* with no result for a tool it does not implement.
MonitoringExecute(tool_name, result) ==
    IF tool_name \in GatewayTools
    THEN [statusCode |-> 200, result |-> result]
    ELSE [statusCode |-> 400, error |-> "Unknown tool"]

\* _execute_action's view of the invoked gateway: result.get('result', {}) of
\* the payload.
InvokedTool(payload) == ToolData(Get(payload, "result", <<>>))

\* What invoking the gateway for a tool gives _execute_action when the
\* invoke does not raise: a payload of the handler.
InvokeOutcomes(tool_name) ==
    IF tool_name \in GatewayTools
    THEN {InvokedTool(MonitoringExecute(tool_name, r)) :
             r \in ToolResults(tool_name)}
    ELSE {InvokedTool(MonitoringExecute(tool_name, <<>>))}

\* Most tool calls of the investigation before the reasoner concludes.
MaxToolCalls == 2

\* The reasoner's decisions: each tool the agent knows, a tool it does not,
\* and the conclusion.
GatewayDecisions ==
    {Answers(<<Open, Members(ToolAction(t)), Close>>) :
        t \in InvestigationTools \cup {"restart_service"}}
ConcludeDecision == Answers(<<Open, Members(ConcludeAction), Close>>)

\* One investigation whose tool calls go through the gateway.
InitGateway ==
    /\ InitBreakerRest
    /\ circuit_breaker_table = NoItems
    /\ consecutive = [s \in Services |-> 0]

NextGateway ==
    \/ RootCauseBegin(IncidentEvent)
    \/ /\ rootcause.pc = "loop"
       /\ rootcause.iteration < MaxToolCalls
       /\ \E o \in GatewayDecisions :
             \/ RootCauseIterate(o, ToolRaised)
             \/ \E t \in InvokeOutcomes(Get(decide_action(o), "type", None)) :
                   RootCauseIterate(o, t)
    \/ /\ rootcause.pc = "loop"
       /\ RootCauseIterate(ConcludeDecision, ToolRaised)
    \/ /\ rootcause.pc = "report"
       /\ \E o \in EntryReports, ie \in BOOLEAN, se \in BOOLEAN :
             RootCauseFinish(o, ie, se)

SpecGateway == InitGateway /\ [][NextGateway]_vars

\* ---------------------------------------------- monitoring gateway: claims

\* What a tool that worked returns: a result, and not an error.
IsReading(data) == DOMAIN data # {} /\ "error" \notin DOMAIN data

\* C35: a tool call that fails, that names a tool the gateway does not
\* implement, or that is skipped because the circuit is open, is logged as
\* an observation of type 'error' and leaves gathered_data unchanged: every
\* logged observation of type 'tool_result' and every entry of gathered_data
\* holds the reading of a tool that worked.
C35_FailedCallIsError ==
    /\ \A k \in DOMAIN rootcause.investigation_log :
          LET entry == rootcause.investigation_log[k]
          IN (entry.type = "observation" /\ entry.content.type = "tool_result")
                => IsReading(entry.content.data)
    /\ \A t \in DOMAIN rootcause.gathered_data :
          IsReading(rootcause.gathered_data[t])

\* ------------------------------------------- remediation agent: execution

\* The actions of a list with risk 'low', in the list's order.
LowRisk(list) == SelectSeq(list, LAMBDA a : Get(a, "risk", None) = "low")

\* C36: on the auto-execute path _execute_plan executes exactly the actions
\* with risk 'low', the immediate ones first and then the corrective ones;
\* its status is 'completed' exactly when every executed action succeeded,
\* also when none was executed, and the incident is then set to 'resolved'.
C36_AutoExecutesLowRisk ==
    [][(/\ agent.pc = "idle"
        /\ agent'.pc = "returned"
        /\ agent'.result.status = "executed"
        /\ agent'.incident_id \in DOMAIN incidents)
          => LET p == agent'.plan
                 execution == agent'.result.execution_result
                 chosen == LowRisk(Get(p, "immediate_actions", <<>>))
                             \o LowRisk(Get(p, "corrective_actions", <<>>))
             IN /\ Len(execution.results) = Len(chosen)
                /\ execution.executed_actions = Len(chosen)
                /\ \A i \in DOMAIN chosen :
                      execution.results[i].action = Get(chosen[i], "action", None)
                /\ (execution.status = "completed")
                      <=> \A i \in DOMAIN execution.results :
                             execution.results[i].success
                /\ execution.status = "completed"
                      => incidents'[agent'.incident_id].status = "resolved"]_vars

\* --------------------------------------- remediation executor: corrective

\* Most corrective actions of a plan whose corrective phase is followed.
MaxCorrectives == 2

\* Plans that pass the safety check, with actions that are critical or not.
CorrectivePlans ==
    LET attrs == [risk : {"low"}, reversible : {TRUE}, critical : BOOLEAN]
    IN {[immediate_actions |->
            [i \in DOMAIN imm |-> Named(imm[i], "immediate", i)],
         corrective_actions |->
            [i \in DOMAIN cor |-> Named(cor[i], "corrective", i)]] :
          imm \in SeqsUpTo(attrs, MaxImmediate),
          cor \in SeqsUpTo(attrs, MaxCorrectives)}

\* One execute call, without an approval id, on such a plan.
InitCorrective ==
    /\ InitBreakerRest
    /\ circuit_breaker_table = NoItems
    /\ consecutive = [s \in Services |-> 0]

NextCorrective ==
    \/ \E p \in CorrectivePlans : ExecBegin("INC-1", p, None, FALSE)
    \/ \E raised \in BOOLEAN : ExecImmediate(raised)
    \/ \E raised \in BOOLEAN : ExecCorrective(raised)
    \/ \E le \in BOOLEAN, ie \in BOOLEAN : ExecFinish(le, ie)

SpecCorrective == InitCorrective /\ [][NextCorrective]_vars

\* C37: the critical flag is honoured only in the immediate phase: a pass of
\* the corrective loop, whether or not its action fails or is critical,
\* leaves execute in the corrective loop or past it with the status as it
\* was, and an execution that is past the corrective loop after starting it
\* has executed every corrective action of the plan.
C37_CorrectiveNeverStops ==
    /\ [][pc = "corrective"
             => /\ pc' \in {"corrective", "finish"}
                /\ results'.status = results.status]_vars
    /\ []((/\ pc \in {"finish", "returned"}
           /\ "corrective_actions" \in DOMAIN results
           /\ results.corrective_actions # <<>>)
             => Len(results.corrective_actions)
                  = Len(event.remediation_plan.corrective_actions))

\* A returned execution whose first corrective action was critical and
\* failed, and whose second corrective action was executed.
C37_Witness ==
    /\ pc = "returned"
    /\ "corrective_actions" \in DOMAIN results
    /\ Len(results.corrective_actions) = 2
    /\ ~results.corrective_actions[1].success
    /\ event.remediation_plan.corrective_actions[1].critical

\* ------------------------------------------------ circuit breaker: reset

\* Callers making one call after the other on one dependency, the calls of
\* different callers overlapping, as time passes.  No table operation
\* raises.
NextBreakerCallers ==
    \/ \E c \in Callers :
          /\ consecutive["cloudwatch"] < MaxConsecutive
          /\ StoredCount("cloudwatch") < MaxConsecutive
          /\ ToolCall(c, "get_cpu_metrics", FALSE)
    \/ \E c \in Callers, raised \in {"none", "query"} :
          ToolQuery(c, raised, FALSE)
    \/ \E c \in Callers : RecordFailureRead(c, FALSE)
    \/ \E c \in Callers : RecordFailureWrite(c, FALSE)
    \/ Elapse

SpecBreakerCallers == InitBreaker /\ [][NextBreakerCallers]_vars

\* This step completes a record_success call.
RecordsSuccess ==
    \E c \in Callers :
        /\ Len(calls'[c].recorded) = Len(calls[c].recorded) + 1
        /\ calls'[c].recorded[Len(calls'[c].recorded)] = "success"

\* C38: once the stored state of a dependency is OPEN, it returns to CLOSED
\* only through record_success: no other step takes the stored state from
\* OPEN to CLOSED.
C38_ClosedOnlyBySuccess ==
    [][\A s \in Services :
          (/\ StoredState(s).state = "OPEN"
           /\ get_state(circuit_breaker_table', s, FALSE).state = "CLOSED")
             => RecordsSuccess]_vars

\* ------------------------------------------------------------ health check

\* check_service_health after its two queries (lines 269-305): the health
\* status computed from what get_error_logs (caller 1) and get_cpu_metrics
\* (caller 2) returned, the numbers of a successful query being an input.
HealthFinish(event_count, avg, max) ==
    /\ calls[1].pc = "returned"
    /\ calls[2].pc = "returned"
    /\ invocation = NoInvocation
    /\ LET error_logs == IF "error" \in DOMAIN calls[1].result
                         THEN calls[1].result ELSE LogsReading(event_count)
           cpu_metrics == IF "error" \in DOMAIN calls[2].result
                          THEN calls[2].result ELSE MetricsReading(avg, max)
       IN invocation' =
            [name |-> "check_service_health", event |-> <<>>, statusCode |-> 200,
             result |-> check_service_health(error_logs, cpu_metrics)]
    /\ UNCHANGED <<now, approvals, incidents, executorVars, processorVars,
                   faults, agent, verifier, breakerVars, bedrock, rootcause,
                   agent_state_table, escalations_table>>

\* One check_service_health call on a breaker table as earlier calls left
\* it: the error-log query, then the metric query, then the status.
NextHealth ==
    \/ /\ calls[1].pc = "idle"
       /\ \E e \in BOOLEAN : ToolCall(1, "get_error_logs", e)
    \/ /\ calls[1].pc = "returned"
       /\ calls[2].pc = "idle"
       /\ \E e \in BOOLEAN : ToolCall(2, "get_cpu_metrics", e)
    \/ \E c \in Callers : CallSteps(c)
    \/ \E n \in EventCounts, a \in AvgDurations, m \in MaxDurations :
          HealthFinish(n, a, m)

SpecHealth == InitBreaker /\ [][NextHealth]_vars

\* C39: check_service_health reports 'healthy' only if both of its queries,
\* the error logs and the metrics, succeeded: when either failed or was
\* skipped because its circuit was open, the result is not 'healthy'.
C39_HealthyNeedsBothQueries ==
    (/\ invocation.name = "check_service_health"
     /\ Get(invocation.result, "health_status", None) = "healthy")
        => /\ "error" \notin DOMAIN calls[1].result
           /\ "error" \notin DOMAIN calls[2].result

\* ------------------------------------------------------ investigation log

\* The entry is a 'conclude' action.
IsConclude(entry) ==
    entry.type = "action" /\ Get(entry.content, "type", None) = "conclude"

\* C40: the investigation log is a series of (thought, action, observation)
\* optionally followed by (thought, action) with a 'conclude' action: an
\* observation follows only an action that is not 'conclude', a 'conclude'
\* action is the last entry and triggers no tool call, and the log never
\* has more than 3 * max_iterations entries.
C40_LogShape ==
    LET log == rootcause.investigation_log
    IN /\ Len(log) <= 3 * max_iterations
       /\ \A k \in DOMAIN log :
             /\ log[k].type = IF k % 3 = 1 THEN "thought"
                              ELSE IF k % 3 = 2 THEN "action" ELSE "observation"
             /\ log[k].type = "observation" => ~IsConclude(log[k - 1])
             /\ IsConclude(log[k]) => k = Len(log)
       /\ Len(log) % 3 # 1
       /\ Len(log) % 3 = 2 => IsConclude(log[Len(log)])
       /\ Len(rootcause.invoked) <= Len(log) \div 3

\* An investigation that concluded on its second iteration, after one tool
\* call.
C40_Witness ==
    LET log == rootcause.investigation_log
    IN /\ Len(log) = 5
       /\ IsConclude(log[5])
       /\ log[3].content.type = "tool_result"
       /\ Len(rootcause.invoked) = 1

====
